---- MODULE Spec2Model ----
(***************************************************************************)
(* A model of the FastAPI scaffolding templates: the request context       *)
(* (core/context.py, core/middlewares.py), the audit log built on the ORM  *)
(* session events (core/audit.py), the per-request unit of work of get_db  *)
(* (core/database.py) and the User repository / service.                   *)
(*                                                                         *)
(* Requests are asyncio tasks that interleave at their await points: each  *)
(* action below is the code between two awaits of one request.  The        *)
(* relational database is modelled as PostgreSQL under READ COMMITTED:     *)
(* committed tables, plus the uncommitted writes of each open transaction, *)
(* row locks and the unique index declared by User.__table_args__.         *)
(***************************************************************************)
EXTENDS Integers, Sequences, FiniteSets, TLC

(***************************************************************************)
(* Bounds of the model.                                                    *)
(***************************************************************************)
MaxUsers == 2       \* uuid7 primary keys handed out to User rows
MaxRequests == 2    \* requests dispatched in one behaviour

Reqs == {1, 2}      \* request tasks that can be in flight together
Usernames == {"alice", "bob"}
Passwords == {"pw1"}

VARIABLES
    AUDITED_TABLES, \* core/audit.py: the configured set of audited table names
    now,            \* the wall clock read by utc_now(): it ticks as requests arrive
    nextId,         \* the next uuid7 (time ordered, so a counter)
    started,        \* number of requests dispatched so far
    users,          \* committed rows of app_user: id -> row
    audit_log,      \* committed rows of audit_log, in commit order
    pc,             \* where each request task stands
    hdr,            \* the HTTP request each task is serving
    ctxvar,         \* the ContextVar request_context: one slot per task context
    ent,            \* the User object held by the request's session, if any
    txw,            \* the uncommitted write of the request's transaction, if any
    pending,        \* AuditLog objects added to the session, not yet committed
    calls,          \* what get_db has called on the session, and what it raised
    probe,          \* input / output pair of the pure helpers (SpecPure only)
    heap,           \* the RequestContext objects alive, by reference (SpecContext)
    cvref,          \* request_context per context: the reference it holds
    ret             \* what get_request_context last returned to each task

vars == <<AUDITED_TABLES, now, nextId, started, users, audit_log, pc, hdr,
          ctxvar, ent, txw, pending, calls, probe, heap, cvref, ret>>

(***************************************************************************)
(* Python values.  Every value carries its type: None, datetime, UUID,     *)
(* str, bool, int, an Enum member (holding its .value), a list, and an     *)
(* object json.dumps rejects (Decimal, bytes, set ...).                    *)
(***************************************************************************)
None_ == [k |-> "none", v |-> 0]
DT(n) == [k |-> "datetime", v |-> n]
UUIDv(n) == [k |-> "uuid", v |-> n]
Str(s) == [k |-> "str", v |-> s]
Bool(b) == [k |-> "bool", v |-> b]
Int_(n) == [k |-> "int", v |-> n]
EnumMember(val) == [k |-> "enum", v |-> val]
List(items) == [k |-> "list", v |-> items]
Obj(repr) == [k |-> "object", v |-> repr]

\* Optional results: <<>> is "no object", <<x>> is the object x.
Nothing == <<>>
Some(x) == <<x>>

isoformat(n) == "2026-01-01T00:00:0" \o ToString(n) \o "+00:00"
str_uuid(n) == "0190-" \o ToString(n)

\* json.dumps(value) succeeds
RECURSIVE JsonEncodable(_)
JsonEncodable(value) ==
    CASE value.k \in {"none", "str", "bool", "int"} -> TRUE
      [] value.k = "list" ->
            \A i \in 1..Len(value.v) : JsonEncodable(value.v[i])
      [] OTHER -> FALSE

\* str(value) of an object json.dumps rejects
RECURSIVE py_str(_)
py_str(value) ==
    CASE value.k = "datetime" -> isoformat(value.v)
      [] value.k = "uuid" -> str_uuid(value.v)
      [] value.k = "str" -> value.v
      [] value.k = "object" -> value.v
      [] value.k = "enum" -> "Enum." \o py_str(value.v)
      [] value.k = "list" -> "[...]"
      [] OTHER -> "None"

\* core/audit.py serialize_value: the isinstance chain, then json.dumps
serialize_value(value) ==
    CASE value.k = "none" -> None_
      [] value.k = "datetime" -> Str(isoformat(value.v))
      [] value.k = "uuid" -> Str(str_uuid(value.v))
      [] value.k = "enum" -> value.v
      [] JsonEncodable(value) -> value
      [] OTHER -> Str(py_str(value))

\* core/audit.py _serialize_values
_serialize_values(values) == [f \in DOMAIN values |-> serialize_value(values[f])]

SENSITIVE_FIELDS == {"password", "hashed_password", "access_token",
                     "refresh_token", "secret_key", "api_key"}
REDACTED == Str("***REDACTED***")

\* variant: no redaction
sanitize_values_keep(values) == values

\* core/audit.py sanitize_values; a dict or None is Some(dict) or Nothing
sanitize_values(values) ==
    IF values = Nothing THEN Nothing
    ELSE Some([f \in DOMAIN values[1] |->
                 IF f \in SENSITIVE_FIELDS THEN REDACTED ELSE values[1][f]])

(***************************************************************************)
(* modules/user/models.py: the User table.                                 *)
(***************************************************************************)
Columns == <<"id", "created_at", "updated_at", "deleted_at", "created_by",
             "updated_by", "username", "hashed_password", "is_active">>
ColumnSet == {Columns[i] : i \in 1..Len(Columns)}
User__tablename__ == "app_user"
User__auditable__ == FALSE          \* the class does not declare __auditable__
User__audit_exclude__ == {"hashed_password"}
User_relationships == {}            \* the mapper has no relationship()

\* core/security.py hash_password (argon2; the salt is not modelled)
hash_password(password) == "$argon2id$" \o password

\* core/security.py verify_password(plain_password, hashed_password)
verify_password(plain_password, hashed_password) ==
    hashed_password = hash_password(plain_password)

\* User(username=..., hashed_password=...): the other attributes read as None
NewUser(username, password) ==
    [c \in ColumnSet |->
        CASE c = "username" -> Str(username)
          [] c = "hashed_password" -> Str(hash_password(password))
          [] OTHER -> None_]

\* core/database.py Base.is_deleted
is_deleted(row) == row["deleted_at"] # None_

(***************************************************************************)
(* core/context.py and core/middlewares.py: the request context.           *)
(***************************************************************************)
RequestContext(user_id, ip_address, user_agent, request_id) ==
    [user_id |-> user_id, ip_address |-> ip_address,
     user_agent |-> user_agent, request_id |-> request_id]

\* The HTTP requests a client can send: the headers the middleware reads and
\* the peer address.  A token is what jwt.decode makes of it.
Token(sub, valid) == [sub |-> sub, valid |-> valid]
HttpRequests == {
    [authorization |-> Some([scheme |-> "Bearer", token |-> Token(Some(Str(str_uuid(1))), TRUE)]),
     forwarded |-> Some(<<"10.0.0.1", "172.16.0.1">>), client |-> Some("172.16.0.1"),
     user_agent |-> Some("curl/8"), x_request_id |-> Some("req-1")],
    [authorization |-> Nothing,
     forwarded |-> Nothing, client |-> Nothing,
     user_agent |-> Nothing, x_request_id |-> Some("req-2")] }

\* An exception that leaves the function instead of a return value.
Raised(exc) == [k |-> "raise", v |-> exc]

\* Python truth value of a claim (`if sub`)
truthy(value) ==
    CASE value.k = "str" -> value.v # ""
      [] value.k = "int" -> value.v # 0
      [] value.k = "none" -> FALSE
      [] OTHER -> TRUE

\* uuid.UUID(hex): the ids the model prints with str_uuid parse back, any
\* other string is a ValueError, a non-string has no .replace (AttributeError)
UUID(value) ==
    IF value.k # "str" THEN Raised("AttributeError")
    ELSE IF \E n \in 1..9 : str_uuid(n) = value.v
         THEN UUIDv(CHOOSE n \in 1..9 : str_uuid(n) = value.v)
         ELSE Raised("ValueError")

\* variant: decode_access_token without its except clause for UUID()
decode_access_token_uncaught(token) ==
    IF ~token.valid THEN None_
    ELSE IF token.sub = Nothing \/ ~truthy(token.sub[1]) THEN None_
    ELSE UUID(token.sub[1])

\* core/security.py decode_access_token, from the outcome of jwt.decode on:
\* token.valid is FALSE when jwt.decode raised InvalidTokenError, otherwise
\* token.sub is payload.get("sub")
decode_access_token(token) ==
    IF ~token.valid THEN None_
    ELSE IF token.sub = Nothing \/ ~truthy(token.sub[1]) THEN None_
    ELSE LET id == UUID(token.sub[1])
         IN  IF id.k = "raise" /\ id.v \in {"ValueError", "TypeError"}
             THEN None_
             ELSE id

\* settings.secret_key and settings.access_token_expire_minutes (a tick is a minute)
secret_key == "secret"
access_token_expire_minutes == 30

\* jwt.encode(payload, key, algorithm): the compact token, kept structured
jwt_encode(payload, key, algorithm) ==
    [wellformed |-> TRUE, alg |-> algorithm, key |-> key, payload |-> payload]

\* create_access_token(data, expires_delta) called at `time`
create_access_token(data, expires_delta, time) ==
    LET delta == IF expires_delta = Nothing \/ expires_delta = Some(0)
                 THEN access_token_expire_minutes
                 ELSE expires_delta[1]
        to_encode == [sub |-> data.sub, exp |-> Some(time + delta)]
    IN  jwt_encode(to_encode, secret_key, "HS256")

\* jwt.decode(token, key, algorithms=["HS256"]) at `time` (PyJWT, as installed
\* by `uv add pyjwt`): DecodeError for a malformed token, InvalidAlgorithmError,
\* InvalidSignatureError, ExpiredSignatureError when exp <= now, and
\* InvalidSubjectError for a sub that is not a string, all InvalidTokenError
jwt_decode(jwt, key, time) ==
    LET ok == /\ jwt.wellformed
              /\ jwt.alg = "HS256"
              /\ jwt.key = key
              /\ (jwt.payload.exp # Nothing => time < jwt.payload.exp[1])
              /\ (jwt.payload.sub # Nothing => jwt.payload.sub[1].k = "str")
    IN  Token(jwt.payload.sub, ok)

\* RequestContextMiddleware._get_client_ip
_get_client_ip(request) ==
    IF request.forwarded # Nothing THEN Str(Head(request.forwarded[1]))
    ELSE IF request.client # Nothing THEN Str(request.client[1])
    ELSE Str("unknown")

OptStr(o) == IF o = Nothing THEN None_ ELSE Str(o[1])

\* RequestContextMiddleware.dispatch: the context built from the request
DispatchContext(request) ==
    RequestContext(
        IF /\ request.authorization # Nothing
           /\ request.authorization[1].scheme = "Bearer"
        THEN decode_access_token(request.authorization[1].token)
        ELSE None_,
        _get_client_ip(request),
        OptStr(request.user_agent),
        IF request.x_request_id # Nothing THEN Str(request.x_request_id[1])
        ELSE Str("uuid7"))

\* variant: one module-level global shared by all tasks
CtxSlotGlobal(r) == CHOOSE s \in Reqs : TRUE

\* request_context is a ContextVar: a task reads and writes the slot of its
\* own context (asyncio runs every request in a task with its own context)
CtxSlot(r) == r

\* core/context.py get_request_context: the value returned ...
get_request_context(cv, r) ==
    IF cv[CtxSlot(r)] = Nothing
    THEN RequestContext(None_, None_, None_, None_)
    ELSE cv[CtxSlot(r)][1]
\* ... and the ContextVar after the call (a missing context is created and set)
AfterGetContext(cv, r) ==
    [cv EXCEPT ![CtxSlot(r)] = Some(get_request_context(cv, r))]

\* core/context.py get_current_user_id
get_current_user_id(cv, r) == get_request_context(cv, r).user_id

\* core/context.py set_request_context
set_request_context(cv, r, ctx) == [cv EXCEPT ![CtxSlot(r)] = Some(ctx)]

\* The contexts a ContextVar has a value in: the one of the server (0), which
\* every task starts as a copy of, and the one of each request task.
ServerContext == 0
Contexts == {ServerContext} \cup Reqs

\* core/context.py request_context: ContextVar(..., default=None)
request_context_default == Nothing


(***************************************************************************)
(* The ORM's view of an object: its attributes (cur), the attribute        *)
(* history (orig: the value an attribute had when it was first set since   *)
(* the last flush: SQLAlchemy's committed_state), and its class.           *)
(***************************************************************************)
EmptyDict == [c \in {} |-> None_]
Loaded(cls, row) == [cls |-> cls, cur |-> row, orig |-> EmptyDict]

\* target.key = value through the instrumented attribute
SetAttr(obj, key, value) ==
    [obj EXCEPT !.cur[key] = value,
                !.orig = IF key \in DOMAIN obj.orig THEN obj.orig
                         ELSE (key :> obj.cur[key]) @@ obj.orig]

\* attr.history.has_changes(): set since the last flush, to another value
has_changes(obj, key) == key \in DOMAIN obj.orig /\ obj.cur[key] # obj.orig[key]

\* A flush ends by resetting the history of what it wrote
Flushed(obj) == [obj EXCEPT !.orig = EmptyDict]

__tablename__(cls) == IF cls = "AuditLog" THEN "audit_log" ELSE User__tablename__
__auditable__(cls) == IF cls = "AuditLog" THEN FALSE ELSE User__auditable__
startswith_underscore(key) == FALSE   \* no mapped attribute is private

\* variant: __audit_exclude__ ignored
_get_exclude_fields_none(cls) == {}

\* core/audit.py _get_exclude_fields
_get_exclude_fields(cls) ==
    IF cls = "AuditLog" THEN {} ELSE User__audit_exclude__

\* core/audit.py _filter_excluded
_filter_excluded(values, exclude_fields) ==
    IF exclude_fields = {} THEN values
    ELSE [f \in DOMAIN values \ exclude_fields |-> values[f]]

\* core/audit.py _model_to_dict
_model_to_dict(target) == target.cur

\* core/audit.py get_changes: the keys the loop keeps
ChangedKeys(target) ==
    {key \in DOMAIN target.cur :
        /\ has_changes(target, key)
        /\ ~(\/ startswith_underscore(key)
             \/ key \in User_relationships
             \/ key \in _get_exclude_fields(target.cls))}

\* variant: hist.added and hist.deleted exchanged
get_changes_swapped(target) ==
    [old_values |-> [key \in ChangedKeys(target) |-> serialize_value(target.cur[key])],
     new_values |-> [key \in ChangedKeys(target) |-> serialize_value(target.orig[key])],
     changed_fields |-> SelectSeq(Columns, LAMBDA key : key \in ChangedKeys(target))]

\* core/audit.py get_changes
get_changes(target) ==
    [old_values |-> [key \in ChangedKeys(target) |-> serialize_value(target.orig[key])],
     new_values |-> [key \in ChangedKeys(target) |-> serialize_value(target.cur[key])],
     changed_fields |-> SelectSeq(Columns, LAMBDA key : key \in ChangedKeys(target))]

\* core/audit.py _is_audited
\* variant: AUDITED_TABLES not consulted
_is_audited_all(cls, tables) ==
    IF cls = "AuditLog" THEN FALSE ELSE TRUE

_is_audited(cls, tables) ==
    IF cls = "AuditLog" THEN FALSE
    ELSE IF __auditable__(cls) THEN TRUE
    ELSE __tablename__(cls) \in tables

\* core/audit.py create_audit_log: the AuditLog object it adds to the session.
\* request is not a column: it is the HTTP request whose flush made the record.
create_audit_log(cv, r, request, time, action, target, old_values, new_values, changed_fields) ==
    [table_name |-> Str(__tablename__(target.cls)),
     record_id |-> Str(py_str(target.cur["id"])),
     action |-> action,
     old_values |-> sanitize_values(old_values),
     new_values |-> sanitize_values(new_values),
     changed_fields |-> changed_fields,
     changed_by |-> get_current_user_id(cv, r),
     changed_at |-> DT(time),
     ip_address |-> get_request_context(cv, r).ip_address,
     user_agent |-> get_request_context(cv, r).user_agent,
     request |-> request]

\* variant: session.new audited without asking _is_audited
AuditNew_unchecked(cv, r, request, time, tables, target) ==
    <<create_audit_log(cv, r, request, time, "INSERT", target, Nothing,
        Some(_serialize_values(_filter_excluded(_model_to_dict(target),
                               _get_exclude_fields(target.cls)))),
        Nothing)>>

\* core/audit.py audit_after_flush, for one object of session.new
AuditNew(cv, r, request, time, tables, target) ==
    IF _is_audited(target.cls, tables)
    THEN <<create_audit_log(cv, r, request, time, "INSERT", target, Nothing,
             Some(_serialize_values(_filter_excluded(_model_to_dict(target),
                                    _get_exclude_fields(target.cls)))),
             Nothing)>>
    ELSE <<>>

\* variant: a record for every dirty object, changed or not
AuditDirty_always(cv, r, request, time, tables, target) ==
    IF _is_audited(target.cls, tables)
    THEN <<create_audit_log(cv, r, request, time, "UPDATE", target,
             Some(get_changes(target).old_values),
             Some(get_changes(target).new_values),
             Some(get_changes(target).changed_fields))>>
    ELSE <<>>

\* variant: a dirty object audited as a deletion
AuditDirty_as_deleted(cv, r, request, time, tables, target) ==
    IF _is_audited(target.cls, tables)
    THEN <<create_audit_log(cv, r, request, time, "DELETE", target,
             Some(_serialize_values(_filter_excluded(_model_to_dict(target),
                                    _get_exclude_fields(target.cls)))),
             Nothing, Nothing)>>
    ELSE <<>>

\* core/audit.py audit_after_flush, for one object of session.dirty
AuditDirty(cv, r, request, time, tables, target) ==
    IF /\ _is_audited(target.cls, tables)
       /\ get_changes(target).changed_fields # <<>>
    THEN <<create_audit_log(cv, r, request, time, "UPDATE", target,
             Some(get_changes(target).old_values),
             Some(get_changes(target).new_values),
             Some(get_changes(target).changed_fields))>>
    ELSE <<>>

\* core/audit.py audit_after_flush, for one object of session.deleted
AuditDeleted(cv, r, request, time, tables, target) ==
    IF _is_audited(target.cls, tables)
    THEN <<create_audit_log(cv, r, request, time, "DELETE", target,
             Some(_serialize_values(_filter_excluded(_model_to_dict(target),
                                    _get_exclude_fields(target.cls)))),
             Nothing, Nothing)>>
    ELSE <<>>

(***************************************************************************)
(* The database: committed rows, and what a transaction sees and may do.   *)
(***************************************************************************)
Write(id, row) == [id |-> id, row |-> row]   \* row: Some(row), Nothing = deleted

\* committed rows with the transaction's own uncommitted write on top
Overlay(committed, w) ==
    IF w = Nothing THEN committed
    ELSE IF w[1].row = Nothing
         THEN [i \in DOMAIN committed \ {w[1].id} |-> committed[i]]
         ELSE [i \in DOMAIN committed \cup {w[1].id} |->
                 IF i = w[1].id THEN w[1].row[1] ELSE committed[i]]

Rows(view) == {view[i] : i \in DOMAIN view}

\* variant: no deleted_at filter
filter_active_all(rows) == rows

\* core/database.py filter_active
filter_active(rows) == {row \in rows : row["deleted_at"] = None_}

\* Result.scalar_one_or_none
scalar_one_or_none(rows) ==
    IF rows = {} THEN Nothing ELSE Some(CHOOSE row \in rows : TRUE)

\* variant: the lookup by id without filter_active
get_by_id_unfiltered(view, id) ==
    scalar_one_or_none({row \in Rows(view) : row["id"] = UUIDv(id)})

\* UserRepository.get_by_id
get_by_id(view, id) ==
    scalar_one_or_none(filter_active({row \in Rows(view) : row["id"] = UUIDv(id)}))

\* UserRepository.get_by_username
get_by_username(view, username, include_deleted) ==
    scalar_one_or_none(
        IF include_deleted
        THEN {row \in Rows(view) : row["username"] = Str(username)}
        ELSE filter_active({row \in Rows(view) : row["username"] = Str(username)}))

\* UserRepository.get_by_id_including_deleted
get_by_id_including_deleted(view, id) ==
    IF id \in DOMAIN view THEN Some(view[id]) ELSE Nothing

\* ORDER BY col DESC: every order in which the database may return the rows.
\* The order of rows with equal keys is not specified and may differ from
\* one statement to the next.
order_by_desc(rows, col) ==
    {s \in [1..Cardinality(rows) -> rows] :
        /\ \A i, j \in DOMAIN s : i # j => s[i] # s[j]
        /\ \A i, j \in DOMAIN s : i < j => s[i][col].v >= s[j][col].v}

\* OFFSET offset LIMIT page_size
offset_limit(items, offset, page_size) ==
    SubSeq(items, offset + 1,
           IF offset + page_size < Len(items) THEN offset + page_size ELSE Len(items))

\* UserRepository.list: the results the two statements may give
list(view, page, page_size) ==
    {[items |-> offset_limit(ordered, page * page_size, page_size),
      total |-> Cardinality({row \in Rows(view) : row["deleted_at"] = None_})] :
        ordered \in order_by_desc(filter_active(Rows(view)), "created_at")}

\* UserRepository.list_deleted
list_deleted(view, page, page_size) ==
    {[items |-> offset_limit(ordered, page * page_size, page_size),
      total |-> Cardinality({row \in Rows(view) : row["deleted_at"] # None_})] :
        ordered \in order_by_desc({row \in Rows(view) : row["deleted_at"] # None_},
                                  "deleted_at")}

\* The unique index uq_user_username (User.__table_args__) as PostgreSQL
\* enforces it when transaction r writes `username` into row id: "error" on a
\* settled committed row, "wait" while another open transaction holds a row
\* with that name (inserted, renamed or being deleted), "ok" otherwise.
\* variant: no unique index
uq_user_username_absent(committed, writes, r, username, id) == "ok"

uq_user_username(committed, writes, r, username, id) ==
    LET held(q) == writes[q] # Nothing /\ q # r
        settled == \E i \in DOMAIN committed \ {id} :
                      /\ committed[i]["username"] = username
                      /\ ~\E q \in Reqs : held(q) /\ writes[q][1].id = i
        in_doubt == \E q \in Reqs :
                      /\ held(q)
                      /\ writes[q][1].id # id
                      /\ \/ /\ writes[q][1].row # Nothing
                            /\ writes[q][1].row[1]["username"] = username
                         \/ /\ writes[q][1].id \in DOMAIN committed
                            /\ committed[writes[q][1].id]["username"] = username
    IN  IF settled THEN "error" ELSE IF in_doubt THEN "wait" ELSE "ok"

\* The row lock an UPDATE or DELETE of row id waits for
RowLocked(writes, r, id) ==
    \E q \in Reqs \ {r} : writes[q] # Nothing /\ writes[q][1].id = id

(***************************************************************************)
(* get_db: what it has called on the session of a request.                 *)
(***************************************************************************)
NoCalls == [commit |-> 0, rollback |-> 0, raised |-> Nothing,
            propagated |-> Nothing, closed |-> FALSE, flushes |-> 0, flushed |-> 0]

BaseExceptions == {"CancelledError"}     \* BaseException, not Exception
\* variant: no except clause
except_nothing(exc) == FALSE

\* core/database.py get_db: "except Exception" catches exc
except_Exception(exc) == exc \notin BaseExceptions

\* variant: the transaction's write survives
TxDiscardedKept(committed, w) == Overlay(committed, w)

\* The committed rows after a transaction ended without COMMIT
TxDiscarded(committed, w) == committed

\* variant: the audit rows are not part of what the commit persists
CommittedAudit_lost(log, records) == log

\* variant: the commit overwrites the table
CommittedAuditReplaced(log, records) == records

\* The committed audit_log after COMMIT of a session holding `records`
CommittedAudit(log, records) == log \o records

View(r) == Overlay(users, txw[r])

\* raise exc inside the handler (or inside commit): it travels to get_db
Raise(r, exc) ==
    /\ pc' = [pc EXCEPT ![r] = "raised"]
    /\ calls' = [calls EXCEPT ![r].raised = Some(exc)]
    /\ ent' = [ent EXCEPT ![r] = Nothing]    \* the handler's frame is unwound

\* RequestContextMiddleware.dispatch up to call_next, and get_db opening the
\* session of the request
Dispatch(r, request) ==
    /\ pc[r] \in {"idle", "closed"}
    /\ \A q \in Reqs : pc[q] = "idle" => r <= q   \* idle tasks are interchangeable
    /\ started < MaxRequests
    /\ started' = started + 1
    /\ now' = now + 1
    /\ hdr' = [hdr EXCEPT ![r] = Some(request)]
    /\ ctxvar' = set_request_context(ctxvar, r, DispatchContext(request))
    /\ calls' = [calls EXCEPT ![r] = NoCalls]
    /\ pc' = [pc EXCEPT ![r] = "handler"]
    /\ UNCHANGED <<AUDITED_TABLES, nextId, users, audit_log, ent, txw,
                   pending, probe, heap, cvref, ret>>

\* UserService.create up to the flush: the lookup by username
CreateCheck(r, username, password) ==
    /\ pc[r] = "handler"
    /\ IF get_by_username(View(r), username, TRUE) # Nothing
       THEN Raise(r, "UsernameAlreadyExistsError")
       ELSE /\ ent' = [ent EXCEPT ![r] = Some(Loaded("User", NewUser(username, password)))]
            /\ pc' = [pc EXCEPT ![r] = "create"]
            /\ UNCHANGED calls
    /\ UNCHANGED <<AUDITED_TABLES, now, nextId, started, users, audit_log, hdr,
                   ctxvar, txw, pending, probe, heap, cvref, ret>>

\* column defaults and set_created_by (before_insert) applied to a new User
Inserted(cur, id, time, uid) ==
    [cur EXCEPT !["id"] = UUIDv(id),
                !["created_at"] = DT(time),
                !["updated_at"] = DT(time),
                !["is_active"] = Bool(TRUE),
                !["created_by"] = IF @ = None_ THEN uid ELSE @,
                !["updated_by"] = uid]

\* UserRepository.create: add, flush (INSERT, then audit_after_flush)
CreateFlush(r) ==
    /\ pc[r] = "create"
    /\ nextId <= MaxUsers
    /\ LET target == [ent[r][1] EXCEPT !.cur =
                        Inserted(@, nextId, now, get_current_user_id(ctxvar, r))]
           verdict == uq_user_username(users, txw, r, target.cur["username"], nextId)
       IN  /\ verdict # "wait"
           /\ IF verdict = "error"
              THEN /\ Raise(r, "IntegrityError")
                   /\ UNCHANGED <<txw, pending, nextId>>
              ELSE /\ txw' = [txw EXCEPT ![r] = Some(Write(nextId, Some(target.cur)))]
                   /\ ent' = [ent EXCEPT ![r] = Some(Flushed(target))]
                   /\ pending' = [pending EXCEPT ![r] =
                         @ \o AuditNew(ctxvar, r, hdr[r][1], now, AUDITED_TABLES, target)]
                   /\ nextId' = nextId + 1
                   /\ pc' = [pc EXCEPT ![r] = "refresh"]
                   /\ UNCHANGED calls
    /\ ctxvar' = AfterGetContext(ctxvar, r)
    /\ UNCHANGED <<AUDITED_TABLES, now, started, users, audit_log, hdr, probe, heap, cvref, ret>>

\* AsyncSession.refresh(user) after the flush of create / update
Refresh(r) ==
    /\ pc[r] = "refresh"
    /\ IF ent[r][1].cur["id"].v \in DOMAIN View(r)
       THEN /\ ent' = [ent EXCEPT ![r] =
                        Some(Loaded("User", View(r)[ent[r][1].cur["id"].v]))]
            /\ pc' = [pc EXCEPT ![r] = "returned"]
            /\ UNCHANGED calls
       ELSE Raise(r, "InvalidRequestError")        \* the row is gone
    /\ UNCHANGED <<AUDITED_TABLES, now, nextId, started, users, audit_log, hdr,
                   ctxvar, txw, pending, probe, heap, cvref, ret>>

\* A handler's lookup of the user it works on; a missing user raises
LoadOrRaise(r, found, nextpc) ==
    /\ IF found = Nothing
       THEN Raise(r, "UserNotFoundError")
       ELSE /\ ent' = [ent EXCEPT ![r] = Some(Loaded("User", found[1]))]
            /\ pc' = [pc EXCEPT ![r] = nextpc]
            /\ UNCHANGED calls
    /\ UNCHANGED <<AUDITED_TABLES, now, nextId, started, users, audit_log, hdr,
                   ctxvar, txw, pending, probe, heap, cvref, ret>>

\* UserService.delete up to repository.delete: get_by_id
DeleteLoad(r, id) ==
    /\ pc[r] = "handler"
    /\ LoadOrRaise(r, get_by_id(View(r), id), "soft_delete")

\* A caller of UserRepository.update: get_by_id, then the attribute changes
UpdateLoad(r, id) ==
    /\ pc[r] = "handler"
    /\ LoadOrRaise(r, get_by_id(View(r), id), "update")

\* A caller of UserRepository.restore / hard_delete: get_by_id_including_deleted
AdminLoad(r, id, what) ==
    /\ pc[r] = "handler"
    /\ LoadOrRaise(r, get_by_id_including_deleted(View(r), id), what)

\* UserService.get
Get(r, id) ==
    /\ pc[r] = "handler"
    /\ IF get_by_id(View(r), id) = Nothing
       THEN Raise(r, "UserNotFoundError")
       ELSE /\ pc' = [pc EXCEPT ![r] = "returned"]
            /\ UNCHANGED <<calls, ent>>
    /\ UNCHANGED <<AUDITED_TABLES, now, nextId, started, users, audit_log, hdr,
                   ctxvar, txw, pending, probe, heap, cvref, ret>>


\* the attribute assignments of a caller, through the instrumented attributes
SetAttrs(obj, changes) ==
    [obj EXCEPT !.cur = [c \in DOMAIN obj.cur |->
                           IF c \in DOMAIN changes THEN changes[c] ELSE obj.cur[c]],
                !.orig = [c \in DOMAIN obj.orig \cup DOMAIN changes |->
                           IF c \in DOMAIN obj.orig THEN obj.orig[c] ELSE obj.cur[c]]]

NetChanges(obj) == {c \in DOMAIN obj.orig : obj.cur[c] # obj.orig[c]}

\* variant: the update hook also stamping created_by
Written_created_by(target, uid, time) ==
    [SetAttr(SetAttr(target, "updated_by", uid), "created_by", uid)
        EXCEPT !.cur["updated_at"] = DT(time)]

\* set_updated_by (before_update), then the UPDATE statement: the onupdate of
\* updated_at is written back to the object outside the attribute history
Written(target, uid, time) ==
    [SetAttr(target, "updated_by", uid) EXCEPT !.cur["updated_at"] = DT(time)]

\* UPDATE app_user SET <changed columns>, updated_at WHERE id = ...: the row
\* is the latest committed one (READ COMMITTED) with those columns replaced
UpdatedRow(row, written) ==
    [c \in ColumnSet |->
        IF c \in NetChanges(written) \cup {"updated_at"} THEN written.cur[c]
        ELSE row[c]]

\* Session.flush() with `target` in session.dirty: set_updated_by
\* (before_update), the UPDATE of the changed columns with the onupdate of
\* updated_at, then audit_after_flush.  before_update runs for every dirty
\* object, so its assignment of updated_by can itself be the net change; an
\* object still without net change gets no UPDATE and yields no changed field.
FlushDirty(r, target, nextpc) ==
    LET id == target.cur["id"].v
        verdict == IF "username" \in NetChanges(target)
                   THEN uq_user_username(users, txw, r, target.cur["username"], id)
                   ELSE "ok"
        hooked == SetAttr(target, "updated_by", get_current_user_id(ctxvar, r))
        written == Written(target, get_current_user_id(ctxvar, r), now)
    IN  IF NetChanges(hooked) = {}
        THEN /\ ent' = [ent EXCEPT ![r] = Some(Flushed(hooked))]
             /\ pending' = [pending EXCEPT ![r] =
                   @ \o AuditDirty(ctxvar, r, hdr[r][1], now, AUDITED_TABLES, hooked)]
             /\ pc' = [pc EXCEPT ![r] = nextpc]
             /\ ctxvar' = AfterGetContext(ctxvar, r)
             /\ UNCHANGED <<txw, calls>>
        ELSE /\ ~RowLocked(txw, r, id)
             /\ verdict # "wait"
             /\ ctxvar' = AfterGetContext(ctxvar, r)
             /\ IF id \notin DOMAIN users
                THEN /\ Raise(r, "StaleDataError")
                     /\ UNCHANGED <<txw, pending>>
                ELSE IF verdict = "error"
                THEN /\ Raise(r, "IntegrityError")
                     /\ UNCHANGED <<txw, pending>>
                ELSE /\ txw' = [txw EXCEPT ![r] =
                              Some(Write(id, Some(UpdatedRow(users[id], written))))]
                     /\ ent' = [ent EXCEPT ![r] = Some(Flushed(written))]
                     /\ pending' = [pending EXCEPT ![r] =
                           @ \o AuditDirty(ctxvar, r, hdr[r][1], now, AUDITED_TABLES, written)]
                     /\ pc' = [pc EXCEPT ![r] = nextpc]
                     /\ UNCHANGED calls

\* UserRepository.soft_delete (and delete): Base.soft_delete, flush
SoftDeleteFlush(r) ==
    /\ pc[r] = "soft_delete"
    /\ FlushDirty(r, SetAttr(ent[r][1], "deleted_at", DT(now)), "returned")
    /\ UNCHANGED <<AUDITED_TABLES, now, nextId, started, users, audit_log, hdr,
                   probe, heap, cvref, ret>>

\* UserRepository.restore: Base.restore, flush
RestoreFlush(r) ==
    /\ pc[r] = "restore"
    /\ FlushDirty(r, SetAttr(ent[r][1], "deleted_at", None_), "returned")
    /\ UNCHANGED <<AUDITED_TABLES, now, nextId, started, users, audit_log, hdr,
                   probe, heap, cvref, ret>>

\* what a caller of UserRepository.update may have assigned
UpdateInputs ==
    { ("is_active" :> Bool(FALSE)),
      ("username" :> Str("bob")),
      ("hashed_password" :> Str(hash_password("pw2"))),
      ("hashed_password" :> Str(hash_password("pw2"))) @@ ("is_active" :> Bool(FALSE)) }

\* UserRepository.update: the caller's assignments, then flush
UpdateFlush(r, changes) ==
    /\ pc[r] = "update"
    /\ FlushDirty(r, SetAttrs(ent[r][1], changes), "refresh")
    /\ UNCHANGED <<AUDITED_TABLES, now, nextId, started, users, audit_log, hdr,
                   probe, heap, cvref, ret>>

\* UserRepository.hard_delete: Session.delete, flush (DELETE, then
\* audit_after_flush over session.deleted)
HardDeleteFlush(r) ==
    /\ pc[r] = "hard_delete"
    /\ ~RowLocked(txw, r, ent[r][1].cur["id"].v)
    /\ txw' = [txw EXCEPT ![r] = Some(Write(ent[r][1].cur["id"].v, Nothing))]
    /\ pending' = [pending EXCEPT ![r] =
          @ \o AuditDeleted(ctxvar, r, hdr[r][1], now, AUDITED_TABLES, ent[r][1])]
    /\ ctxvar' = IF _is_audited("User", AUDITED_TABLES)
                 THEN AfterGetContext(ctxvar, r) ELSE ctxvar
    /\ pc' = [pc EXCEPT ![r] = "returned"]
    /\ UNCHANGED <<AUDITED_TABLES, now, nextId, started, users, audit_log, hdr,
                   ent, calls, probe, heap, cvref, ret>>

\* The task is cancelled at an await of the handler (the client went away):
\* asyncio raises CancelledError there
HandlerCancelled(r) ==
    /\ pc[r] \in {"handler", "create", "soft_delete", "restore", "update",
                  "hard_delete", "refresh", "returned"}
    /\ Raise(r, "CancelledError")
    /\ UNCHANGED <<AUDITED_TABLES, now, nextId, started, users, audit_log, hdr,
                   ctxvar, txw, pending, probe, heap, cvref, ret>>

\* the request is over: its task, context and session are gone
EndRequest(r) ==
    /\ pc' = [pc EXCEPT ![r] = "closed"]
    /\ ent' = [ent EXCEPT ![r] = Nothing]
    /\ txw' = [txw EXCEPT ![r] = Nothing]
    /\ pending' = [pending EXCEPT ![r] = <<>>]
    /\ hdr' = [hdr EXCEPT ![r] = Nothing]
    /\ ctxvar' = [ctxvar EXCEPT ![CtxSlot(r)] = Nothing]

\* A pending AuditLog object as audit_after_flush meets it in session.new
AuditLogEntity(record) ==
    [cls |-> "AuditLog",
     cur |-> [id |-> UUIDv(0), table_name |-> record.table_name,
              record_id |-> record.record_id, changed_by |-> record.changed_by,
              changed_at |-> record.changed_at],
     orig |-> EmptyDict]

\* audit_after_flush over a session.new that holds the AuditLog objects `new`
RECURSIVE after_flush_new(_, _)
after_flush_new(new, r) ==
    IF new = <<>> THEN <<>>
    ELSE AuditNew(ctxvar, r, hdr[r][1], now, AUDITED_TABLES, AuditLogEntity(Head(new)))
         \o after_flush_new(Tail(new), r)

\* get_db after the handler returned: session.commit().  It flushes until the
\* session is clean, and gives up with a FlushError after flush_guard flushes
\* in a row (SQLAlchemy: 100); with the session clean it makes the
\* transaction durable.  A turn of that loop inserts the AuditLog objects not
\* yet flushed and runs audit_after_flush over them.  The step is the COMMIT
\* when the session is clean at once or after one turn; when a turn left new
\* objects in the session the step is that turn alone and the loop goes on.
\* calls[r].flushes counts the turns, calls[r].flushed the objects of
\* pending[r] already inserted.
flush_guard == 100
Commit(r) ==
    /\ pc[r] = "returned"
    /\ LET new == SubSeq(pending[r], calls[r].flushed + 1, Len(pending[r]))
           added == after_flush_new(new, r)
           committed ==
               /\ users' = Overlay(users, txw[r])
               /\ audit_log' = CommittedAudit(audit_log, pending[r])
               /\ EndRequest(r)
       IN  IF new = <<>>
           THEN /\ committed
                /\ calls' = [calls EXCEPT ![r].commit = @ + 1, ![r].closed = TRUE]
           ELSE IF calls[r].flushes >= flush_guard
           THEN /\ pc' = [pc EXCEPT ![r] = "raised"]
                /\ calls' = [calls EXCEPT ![r].commit = @ + 1,
                                          ![r].raised = Some("FlushError")]
                /\ ent' = [ent EXCEPT ![r] = Nothing]
                /\ UNCHANGED <<users, audit_log, hdr, ctxvar, txw, pending>>
           ELSE IF added = <<>>
           THEN /\ committed
                /\ calls' = [calls EXCEPT ![r].commit = @ + 1, ![r].closed = TRUE,
                                          ![r].flushes = @ + 1,
                                          ![r].flushed = Len(pending[r])]
           ELSE /\ pending' = [pending EXCEPT ![r] = pending[r] \o added]
                /\ calls' = [calls EXCEPT ![r].flushes = @ + 1,
                                          ![r].flushed = Len(pending[r])]
                /\ UNCHANGED <<users, audit_log, pc, ent, hdr, ctxvar, txw>>
    /\ UNCHANGED <<AUDITED_TABLES, now, nextId, started, probe, heap, cvref, ret>>

\* get_db after the handler returned: session.commit() raises (the
\* connection is lost: OperationalError)
CommitFail(r) ==
    /\ pc[r] = "returned"
    /\ pc' = [pc EXCEPT ![r] = "raised"]
    /\ calls' = [calls EXCEPT ![r].commit = @ + 1,
                             ![r].raised = Some("OperationalError")]
    /\ ent' = [ent EXCEPT ![r] = Nothing]
    /\ UNCHANGED <<AUDITED_TABLES, now, nextId, started, users, audit_log, hdr,
                   ctxvar, txw, pending, probe, heap, cvref, ret>>

\* get_db with an exception in flight: "except Exception: rollback; raise",
\* then the session is closed by "async with"
GetDbExit(r) ==
    /\ pc[r] = "raised"
    /\ users' = TxDiscarded(users, txw[r])
    /\ calls' = [calls EXCEPT
            ![r].rollback = IF except_Exception(calls[r].raised[1]) THEN @ + 1 ELSE @,
            ![r].propagated = calls[r].raised,
            ![r].closed = TRUE]
    /\ EndRequest(r)
    /\ UNCHANGED <<AUDITED_TABLES, now, nextId, started, audit_log, probe, heap, cvref, ret>>

(***************************************************************************)
(* The initial states: the service has just started on a database that is  *)
(* empty, or that earlier requests left with one user (alice, registered   *)
(* by an anonymous request at time 1), possibly soft-deleted at time 2,    *)
(* together with the audit rows those requests wrote.  AUDITED_TABLES      *)
(* ships empty ("adjust as needed"): the application modelled by Spec has  *)
(* registered the user table, the one of SpecDefault has not.              *)
(***************************************************************************)
Anonymous == CHOOSE request \in HttpRequests : request.authorization = Nothing
EarlierCv == [r \in Reqs |-> Some(DispatchContext(Anonymous))]
EarlierCreated ==
    [Loaded("User", NewUser("alice", "pw1")) EXCEPT !.cur =
        Inserted(@, 1, 1, get_current_user_id(EarlierCv, 1))]
EarlierDeleted ==
    Written(SetAttr(Flushed(EarlierCreated), "deleted_at", DT(2)),
            get_current_user_id(EarlierCv, 1), 2)
Histories == {
    [now |-> 0, nextId |-> 1, users |-> EmptyDict, created |-> FALSE, deleted |-> FALSE],
    [now |-> 1, nextId |-> 2, users |-> (1 :> EarlierCreated.cur),
     created |-> TRUE, deleted |-> FALSE],
    [now |-> 2, nextId |-> 2,
     users |-> (1 :> UpdatedRow(EarlierCreated.cur, EarlierDeleted)),
     created |-> TRUE, deleted |-> TRUE] }
EarlierAudit(h, tables) ==
    (IF h.created
     THEN AuditNew(EarlierCv, 1, Anonymous, 1, tables, EarlierCreated) ELSE <<>>)
    \o (IF h.deleted
        THEN AuditDirty(EarlierCv, 1, Anonymous, 2, tables, EarlierDeleted) ELSE <<>>)

InitWith(tables) ==
    /\ AUDITED_TABLES = tables
    /\ \E h \in Histories :
          /\ now = h.now
          /\ nextId = h.nextId
          /\ users = h.users
          /\ audit_log = EarlierAudit(h, AUDITED_TABLES)
    /\ started = 0
    /\ pc = [r \in Reqs |-> "idle"]
    /\ hdr = [r \in Reqs |-> Nothing]
    /\ ctxvar = [r \in Reqs |-> Nothing]
    /\ ent = [r \in Reqs |-> Nothing]
    /\ txw = [r \in Reqs |-> Nothing]
    /\ pending = [r \in Reqs |-> <<>>]
    /\ calls = [r \in Reqs |-> NoCalls]
    /\ probe = Nothing
    /\ heap = <<>>
    /\ cvref = [c \in Contexts |-> request_context_default]
    /\ ret = [r \in Reqs |-> Nothing]

Init == InitWith({User__tablename__})
InitDefault == InitWith({})

UserIds == 1..MaxUsers

Next ==
    \/ \E r \in Reqs, request \in HttpRequests : Dispatch(r, request)
    \/ \E r \in Reqs, u \in Usernames, p \in Passwords : CreateCheck(r, u, p)
    \/ \E r \in Reqs : CreateFlush(r)
    \/ \E r \in Reqs : Refresh(r)
    \/ \E r \in Reqs, id \in UserIds : DeleteLoad(r, id)
    \/ \E r \in Reqs, id \in UserIds : UpdateLoad(r, id)
    \/ \E r \in Reqs, id \in UserIds, what \in {"restore", "hard_delete"} :
          AdminLoad(r, id, what)
    \/ \E r \in Reqs, id \in UserIds : Get(r, id)
    \/ \E r \in Reqs : SoftDeleteFlush(r)
    \/ \E r \in Reqs : RestoreFlush(r)
    \/ \E r \in Reqs, changes \in UpdateInputs : UpdateFlush(r, changes)
    \/ \E r \in Reqs : HardDeleteFlush(r)
    \/ \E r \in Reqs : HandlerCancelled(r)
    \/ \E r \in Reqs : Commit(r)
    \/ \E r \in Reqs : CommitFail(r)
    \/ \E r \in Reqs : GetDbExit(r)

Spec == Init /\ [][Next]_vars
SpecDefault == InitDefault /\ [][Next]_vars

(***************************************************************************)
(* The pure helpers of core/audit.py on inputs of their own: values of     *)
(* every Python type serialize_value tells apart, and the dicts            *)
(* create_audit_log is handed.                                             *)
(***************************************************************************)
Scalars ==
    {None_, Str("admin"), Bool(TRUE), Int_(1), Obj("1.5")}
        \cup {DT(n) : n \in 0..MaxRequests} \cup {UUIDv(n) : n \in 1..MaxUsers}
PyValues ==
    Scalars \cup {EnumMember(val) : val \in Scalars \ {None_}}
            \cup {List(<<>>)} \cup {List(<<val>>) : val \in Scalars}

AuditKeys == {"password", "api_key", "username"}
AuditValues == {Str("s3cret"), Int_(7)}
AuditDicts == {Nothing} \cup
    UNION {{Some(values) : values \in [keys -> AuditValues]} : keys \in SUBSET AuditKeys}

InitPure ==
    /\ InitWith({})
    /\ users = EmptyDict

\* serialize_value(value)
SerializeValue(value) ==
    /\ probe = Nothing
    /\ probe' = Some([fn |-> "serialize_value", arg |-> value,
                      out |-> serialize_value(value)])
    /\ UNCHANGED <<AUDITED_TABLES, now, nextId, started, users, audit_log, pc,
                   hdr, ctxvar, ent, txw, pending, calls, heap, cvref, ret>>

\* create_audit_log(session, action, target, old_values, new_values)
CreateAuditLog(action, old_values, new_values) ==
    /\ probe = Nothing
    /\ probe' = Some([fn |-> "create_audit_log",
                      arg |-> [old_values |-> old_values, new_values |-> new_values],
                      out |-> create_audit_log(ctxvar, 1, Anonymous, now, action,
                                               EarlierCreated, old_values,
                                               new_values, Nothing)])
    /\ UNCHANGED <<AUDITED_TABLES, now, nextId, started, users, audit_log, pc,
                   hdr, ctxvar, ent, txw, pending, calls, heap, cvref, ret>>

\* UserRepository lookup that AuthService and UserService call as
\* get_one_by_username(username, *, include_deleted=False)
get_one_by_username(view, username, include_deleted) ==
    get_by_username(view, username, include_deleted)

\* core/security.py Token(access_token=...), the login response
TokenResponse(access_token) ==
    [access_token |-> access_token, token_type |-> "bearer"]

\* variant: the is_active test placed before the password test
authenticate_active_first(view, username, password, time) ==
    LET user == get_one_by_username(view, username, FALSE)
    IN  IF user = Nothing THEN Raised("InvalidCredentialsError")
        ELSE IF ~user[1]["is_active"].v THEN Raised("UserDisabledError")
        ELSE IF ~verify_password(password, user[1]["hashed_password"].v)
             THEN Raised("InvalidCredentialsError")
        ELSE TokenResponse(create_access_token(
                 [sub |-> Some(Str(py_str(user[1]["id"])))], Nothing, time))

\* AuthService.authenticate(username, password), called at `time`
authenticate(view, username, password, time) ==
    LET user == get_one_by_username(view, username, FALSE)
    IN  IF user = Nothing
           \/ ~verify_password(password, user[1]["hashed_password"].v)
        THEN Raised("InvalidCredentialsError")
        ELSE IF ~user[1]["is_active"].v THEN Raised("UserDisabledError")
        ELSE TokenResponse(create_access_token(
                 [sub |-> Some(Str(py_str(user[1]["id"])))], Nothing, time))

\* user tables for the login: alice, and bob or no bob, each active or
\* disabled, live or soft-deleted; the stored password is "pw1"
AuthRow(id, username, is_active, deleted) ==
    [EarlierCreated.cur EXCEPT !["id"] = UUIDv(id),
                               !["username"] = Str(username),
                               !["is_active"] = Bool(is_active),
                               !["deleted_at"] = IF deleted THEN DT(1) ELSE None_]
AuthTables ==
    LET alice == {(1 :> AuthRow(1, "alice", a, d)) : a \in BOOLEAN, d \in BOOLEAN}
        bob == {EmptyDict} \cup
               {(2 :> AuthRow(2, "bob", a, d)) : a \in BOOLEAN, d \in BOOLEAN}
    IN  {x @@ y : x \in alice, y \in bob}

\* POST /auth/login: authenticate(username, password)
Authenticate(view, username, password) ==
    /\ probe = Nothing
    /\ probe' = Some([fn |-> "authenticate",
                      arg |-> [view |-> view, username |-> username,
                               password |-> password],
                      out |-> authenticate(view, username, password, now)])
    /\ UNCHANGED <<AUDITED_TABLES, now, nextId, started, users, audit_log, pc,
                   hdr, ctxvar, ent, txw, pending, calls, heap, cvref, ret>>

\* Exceptions that can leave a route: cls and its __mro__ up to BaseException
ApiError(cls, code, message, status_code, detail) ==
    [cls |-> cls, mro |-> <<cls, "ApiError", "Exception", "BaseException">>,
     code |-> code, message |-> message, status_code |-> status_code,
     detail |-> detail]
RequestValidationError(errors) ==
    [cls |-> "RequestValidationError",
     mro |-> <<"RequestValidationError", "ValidationException", "Exception",
               "BaseException">>,
     errors |-> errors]
StarletteHTTPException(cls, status_code, detail, headers) ==
    [cls |-> cls, mro |-> <<cls, "StarletteHTTPException", "Exception", "BaseException">>,
     status_code |-> status_code, detail |-> detail, headers |-> headers]
OtherException(cls, mro, args) == [cls |-> cls, mro |-> mro, args |-> args]

\* JSONResponse(status_code, content, headers); the message texts of the
\* source are given in English
JSONResponse(status_code, content, headers) ==
    [status_code |-> status_code, content |-> content, headers |-> headers]

\* api_error_handler
api_error_handler(exc) ==
    JSONResponse(exc.status_code,
                 [code |-> exc.code, message |-> exc.message, data |-> None_,
                  detail |-> exc.detail],
                 IF exc.status_code = 401
                 THEN ("WWW-Authenticate" :> "Bearer") ELSE None_)

\* modules/user/exceptions.py UserNotFoundError, a NotFoundError (status 404)
UserNotFoundError(user_id) ==
    ApiError("UserNotFoundError", "USER_NOT_FOUND", "user not found", 404,
             [user_id |-> str_uuid(user_id)])

\* ".".join(str(x) for x in loc)
RECURSIVE join_dot(_)
join_dot(loc) ==
    IF Len(loc) = 0 THEN ""
    ELSE IF Len(loc) = 1 THEN loc[1]
    ELSE loc[1] \o "." \o join_dot(Tail(loc))

\* validation_error_handler
validation_error_handler(exc) ==
    LET field(loc) == IF Len(loc) > 1 THEN join_dot(Tail(loc)) ELSE loc[1]
        errors == [i \in 1..Len(exc.errors) |->
                      [field |-> field(exc.errors[i].loc),
                       message |-> exc.errors[i].msg,
                       type |-> exc.errors[i].type]]
    IN  JSONResponse(422,
                     [code |-> "INVALID_PARAMETER", message |-> "request validation failed",
                      data |-> None_, detail |-> [errors |-> errors]],
                     None_)

\* http_error_handler
http_error_handler(exc) ==
    LET code_map == (400 :> "INVALID_REQUEST") @@ (401 :> "UNAUTHORIZED")
                    @@ (403 :> "FORBIDDEN") @@ (404 :> "RESOURCE_NOT_FOUND")
                    @@ (500 :> "SYSTEM_ERROR") @@ (503 :> "SERVICE_UNAVAILABLE")
        code == IF exc.status_code \in DOMAIN code_map
                THEN code_map[exc.status_code] ELSE "SYSTEM_ERROR"
        given == IF exc.headers = None_ THEN <<>> ELSE exc.headers
        headers == IF exc.status_code = 401 /\ "WWW-Authenticate" \notin DOMAIN given
                   THEN given @@ ("WWW-Authenticate" :> "Bearer")
                   ELSE given
    IN  JSONResponse(exc.status_code,
                     [code |-> code, message |-> exc.detail, data |-> None_,
                      detail |-> None_],
                     IF DOMAIN headers = {} THEN None_ ELSE headers)

\* variant: the exception's text put in the message
unhandled_error_handler_leaky(exc) ==
    JSONResponse(500,
                 [code |-> "SYSTEM_ERROR", message |-> exc.args, data |-> None_,
                  detail |-> None_],
                 None_)

\* unhandled_error_handler
unhandled_error_handler(exc) ==
    JSONResponse(500,
                 [code |-> "SYSTEM_ERROR", message |-> "internal server error",
                  data |-> None_, detail |-> None_],
                 None_)

\* setup_exception_handlers: the classes with a registered handler
exception_handlers ==
    {"ApiError", "RequestValidationError", "StarletteHTTPException", "Exception"}

\* The handler lookup walks type(exc).__mro__ and takes the first registered
\* class; an exception with none propagates to the server (Nothing).
handle_exception(exc) ==
    LET hits == {i \in 1..Len(exc.mro) : exc.mro[i] \in exception_handlers}
    IN  IF hits = {} THEN Nothing
        ELSE LET cls == exc.mro[CHOOSE i \in hits : \A j \in hits : i <= j]
             IN  Some(CASE cls = "ApiError" -> api_error_handler(exc)
                        [] cls = "RequestValidationError" -> validation_error_handler(exc)
                        [] cls = "StarletteHTTPException" -> http_error_handler(exc)
                        [] OTHER -> unhandled_error_handler(exc))

\* failures of a request: business errors, validation errors, HTTP errors
\* (also the router's own 404 and 405), other exceptions and a cancellation
Failures ==
    {ApiError("ApiError", "INVALID_REQUEST", "Invalid Request", 400, None_),
     ApiError("NotFoundError", "RESOURCE_NOT_FOUND", "resource not found", 404,
              [user_id |-> "0190-1"]),
     ApiError("InvalidCredentialsError", "UNAUTHORIZED", "invalid credentials", 401, None_),
     ApiError("UserDisabledError", "USER_DISABLED", "user disabled", 403, None_)}
    \cup {RequestValidationError(errors) : errors \in
            {<<[loc |-> <<"body", "username">>, msg |-> "Field required",
                type |-> "missing"]>>,
             <<[loc |-> <<"query", "page">>, msg |-> "Input should be >= 0",
                type |-> "greater_than_equal"],
               [loc |-> <<"body">>, msg |-> "Field required", type |-> "missing"]>>}}
    \cup {StarletteHTTPException(cls, status_code, "detail of " \o cls, headers) :
            cls \in {"StarletteHTTPException", "HTTPException"},
            status_code \in {401, 404, 405},
            headers \in {None_, ("WWW-Authenticate" :> "Basic"), ("Allow" :> "GET")}}
    \cup {OtherException("ValueError", <<"ValueError", "Exception", "BaseException">>,
                         "secret"),
          OtherException("ResponseValidationError",
                         <<"ResponseValidationError", "ValidationException",
                           "Exception", "BaseException">>, "1 validation error"),
          OtherException("CancelledError", <<"CancelledError", "BaseException">>, "")}

\* an exception leaves the route at a request
HandleException(exc) ==
    /\ probe = Nothing
    /\ probe' = Some([fn |-> "handle_exception", arg |-> exc,
                      out |-> handle_exception(exc)])
    /\ UNCHANGED <<AUDITED_TABLES, now, nextId, started, users, audit_log, pc,
                   hdr, ctxvar, ent, txw, pending, calls, heap, cvref, ret>>

\* app.add_middleware(cls): Starlette inserts at the front of user_middleware,
\* and builds the stack so that the front of the list is the outermost layer
add_middleware(user_middleware, cls) == <<cls>> \o user_middleware

\* the CORS registration, made only for a non-empty settings.cors_origins
add_cors(user_middleware, cors_origins) ==
    IF cors_origins # <<>> THEN add_middleware(user_middleware, "CORSMiddleware")
    ELSE user_middleware

\* setup_middlewares of the three templates: user_middleware after the calls
setup_middlewares ==
    [modular_api_development |-> [cors_origins \in {<<>>, <<"http://localhost:3000">>} |->
        add_cors(add_middleware(add_middleware(<<>>, "RequestContextMiddleware"),
                                "GZipMiddleware"), cors_origins)],
     modular_api |-> [cors_origins \in {<<>>, <<"http://localhost:3000">>} |->
        add_middleware(add_middleware(add_middleware(add_cors(<<>>, cors_origins),
            "GZipMiddleware"), "LoggingMiddleware"), "RequestContextMiddleware")],
     simple_api |-> [cors_origins \in {<<>>, <<"http://localhost:3000">>} |->
        add_middleware(add_middleware(add_middleware(add_middleware(
            add_cors(<<>>, cors_origins),
            "GZipMiddleware"), "ExceptionMiddleware"), "LoggingMiddleware"),
            "RequestContextMiddleware")]]

\* A request passing down the stack: each layer in the order it runs, with
\* whether set_request_context has been called when it starts.
RECURSIVE call_next(_, _)
call_next(user_middleware, context_set) ==
    IF user_middleware = <<>> THEN <<>>
    ELSE <<[middleware |-> Head(user_middleware), context_set |-> context_set]>>
         \o call_next(Tail(user_middleware),
                      context_set \/ Head(user_middleware) = "RequestContextMiddleware")

\* one request through the application that setup_middlewares configured
SetupMiddlewares(template, cors_origins) ==
    /\ probe = Nothing
    /\ probe' = Some([fn |-> "setup_middlewares",
                      arg |-> [template |-> template, cors_origins |-> cors_origins],
                      out |-> call_next(setup_middlewares[template][cors_origins], FALSE)])
    /\ UNCHANGED <<AUDITED_TABLES, now, nextId, started, users, audit_log, pc,
                   hdr, ctxvar, ent, txw, pending, calls, heap, cvref, ret>>

\* tokens a client can present: issued ones, and forged or damaged ones
Times == 0..MaxRequests
Subs == {Nothing, Some(Str("")), Some(Str("not-a-uuid")), Some(Int_(5)),
         Some(None_), Some(Str(str_uuid(1)))}
Jwts ==
    [wellformed : BOOLEAN, alg : {"HS256", "none"}, key : {secret_key, "other"},
     payload : [sub : Subs, exp : {Some(1), Some(2)}]]

\* decode_access_token(token) at `time`
DecodeAccessToken(jwt, time) ==
    /\ probe = Nothing
    /\ probe' = Some([fn |-> "decode_access_token",
                      arg |-> [jwt |-> jwt, time |-> time],
                      out |-> decode_access_token(jwt_decode(jwt, secret_key, time))])
    /\ UNCHANGED <<AUDITED_TABLES, now, nextId, started, users, audit_log, pc,
                   hdr, ctxvar, ent, txw, pending, calls, heap, cvref, ret>>

\* create_access_token({"sub": str(id)}, expires_delta) at `issued`, and the
\* token decoded at `time`
CreateAccessToken(id, expires_delta, issued, time) ==
    /\ probe = Nothing
    /\ issued <= time
    /\ LET jwt == create_access_token([sub |-> Some(Str(str_uuid(id)))],
                                      expires_delta, issued)
       IN  probe' = Some([fn |-> "create_access_token",
                          arg |-> [id |-> id, expires_delta |-> expires_delta,
                                   issued |-> issued, time |-> time],
                          jwt |-> jwt,
                          out |-> decode_access_token(jwt_decode(jwt, secret_key, time))])
    /\ UNCHANGED <<AUDITED_TABLES, now, nextId, started, users, audit_log, pc,
                   hdr, ctxvar, ent, txw, pending, calls, heap, cvref, ret>>

\* user tables a client pages through: any of the users present, created at
\* time 1 or 2 (two users may have the same created_at), soft-deleted or not
ListNames == <<"alice", "bob", "carol", "dave">>
ListRow(id, created_at, deleted) ==
    [EarlierCreated.cur EXCEPT !["id"] = UUIDv(id),
                               !["username"] = Str(ListNames[id]),
                               !["created_at"] = DT(created_at),
                               !["deleted_at"] = IF deleted THEN DT(3) ELSE None_]
ListTables ==
    UNION {{view \in [ids -> {ListRow(id, t, d) : id \in ids, t \in 1..2, d \in BOOLEAN}] :
               \A id \in ids : view[id]["id"] = UUIDv(id)} : ids \in SUBSET UserIds}

\* GET /users, page 0: UserService.list -> UserRepository.list(0, page_size);
\* the client starts reading the table page by page
ListUsers(view, page_size) ==
    /\ probe = Nothing
    /\ \E res \in list(view, 0, page_size) :
          probe' = Some([fn |-> "list",
                         arg |-> [view |-> view, page_size |-> page_size],
                         out |-> <<res>>])
    /\ UNCHANGED <<AUDITED_TABLES, now, nextId, started, users, audit_log, pc,
                   hdr, ctxvar, ent, txw, pending, calls, heap, cvref, ret>>

\* GET /users, the next page of the same table (no write in between):
\* out[n] is the result for page n - 1
ListUsersNextPage ==
    /\ probe # Nothing
    /\ probe[1].fn = "list"
    /\ Len(probe[1].out) <= MaxUsers
    /\ \E res \in list(probe[1].arg.view, Len(probe[1].out), probe[1].arg.page_size) :
          probe' = Some([probe[1] EXCEPT !.out = @ \o <<res>>])
    /\ UNCHANGED <<AUDITED_TABLES, now, nextId, started, users, audit_log, pc,
                   hdr, ctxvar, ent, txw, pending, calls, heap, cvref, ret>>

NextPure ==
    \/ \E template \in DOMAIN setup_middlewares,
          cors_origins \in {<<>>, <<"http://localhost:3000">>} :
          SetupMiddlewares(template, cors_origins)
    \/ \E exc \in Failures : HandleException(exc)
    \/ \E view \in AuthTables, username \in Usernames \cup {"carol"},
          password \in Passwords \cup {"wrong"} :
          Authenticate(view, username, password)
    \/ \E jwt \in Jwts, time \in Times : DecodeAccessToken(jwt, time)
    \/ \E id \in 1..MaxUsers, expires_delta \in {Nothing, Some(0), Some(1)},
          issued \in Times, time \in Times :
          CreateAccessToken(id, expires_delta, issued, time)
    \/ \E view \in ListTables, page_size \in 1..MaxUsers : ListUsers(view, page_size)
    \/ ListUsersNextPage
    \/ \E value \in PyValues : SerializeValue(value)
    \/ \E action \in {"INSERT", "UPDATE", "DELETE"},
          old_values \in AuditDicts, new_values \in AuditDicts :
          CreateAuditLog(action, old_values, new_values)

SpecPure == InitPure /\ [][NextPure]_vars

(***************************************************************************)
(* core/context.py with RequestContext objects by reference.  Spec keeps   *)
(* the ContextVar by value, since no code of the user resource changes a   *)
(* context in place; set_current_user_id does, so here every context is    *)
(* an object on a heap and request_context holds a reference.  A task is   *)
(* one request; its context starts as a copy of the server's.  `by` is     *)
(* not a field of the object: it records the tasks that wrote into it.     *)
(***************************************************************************)
MaxObjects == 3     \* RequestContext objects created in one behaviour

mainvars == <<AUDITED_TABLES, now, nextId, users, audit_log, ctxvar, ent, txw,
              pending, calls, probe>>

\* variant: one module-level RequestContext object handed to everybody
new_RequestContext_singleton(objects) == 1

\* RequestContext(...): a new object, distinct from every object alive
new_RequestContext(objects) == Len(objects) + 1

\* the heap once task t has stored ctx in the object ref
Stored(objects, ref, ctx, t) ==
    IF ref \in DOMAIN objects
    THEN [objects EXCEPT ![ref] = [ctx |-> ctx, by |-> @.by \cup {t}]]
    ELSE Append(objects, [ctx |-> ctx, by |-> {t}])

\* get_request_context() called in task t: the reference it returns ...
get_request_context_ref(objects, refs, t) ==
    IF refs[t] = Nothing THEN new_RequestContext(objects) ELSE refs[t][1]
\* ... and the heap after the call (ctx = RequestContext() when there was none)
get_request_context_heap(objects, refs, t) ==
    IF refs[t] = Nothing
    THEN Stored(objects, new_RequestContext(objects),
                RequestContext(None_, None_, None_, None_), t)
    ELSE objects

CanAllocate == Len(heap) < MaxObjects

\* A request task starts where no middleware is installed: its context is a
\* copy of the server's
TaskStart(t) ==
    /\ pc[t] = "idle"
    /\ pc' = [pc EXCEPT ![t] = "handler"]
    /\ cvref' = [cvref EXCEPT ![t] = cvref[ServerContext]]
    /\ UNCHANGED <<heap, ret, hdr, started>>
    /\ UNCHANGED mainvars

\* A request task starts under RequestContextMiddleware.dispatch:
\* ctx = RequestContext(...); set_request_context(ctx)
MiddlewareDispatch(t, request) ==
    /\ pc[t] = "idle"
    /\ CanAllocate
    /\ pc' = [pc EXCEPT ![t] = "handler"]
    /\ hdr' = [hdr EXCEPT ![t] = Some(request)]
    /\ heap' = Stored(heap, new_RequestContext(heap), DispatchContext(request), t)
    /\ cvref' = [cvref EXCEPT ![t] = Some(new_RequestContext(heap))]
    /\ UNCHANGED <<ret, started>>
    /\ UNCHANGED mainvars

\* set_request_context(RequestContext(user_id=user_id)) called by task t
SetRequestContext(t, user_id) ==
    /\ pc[t] = "handler"
    /\ CanAllocate
    /\ heap' = Stored(heap, new_RequestContext(heap),
                      RequestContext(user_id, None_, None_, None_), t)
    /\ cvref' = [cvref EXCEPT ![t] = Some(new_RequestContext(heap))]
    /\ UNCHANGED <<ret, pc, hdr, started>>
    /\ UNCHANGED mainvars

\* set_current_user_id(user_id) called by task t: get_request_context(),
\* ctx.user_id = user_id, request_context.set(ctx)
SetCurrentUserId(t, user_id) ==
    /\ pc[t] = "handler"
    /\ cvref[t] = Nothing => CanAllocate
    /\ LET ref == get_request_context_ref(heap, cvref, t)
           got == get_request_context_heap(heap, cvref, t)
       IN  /\ heap' = Stored(got, ref, [got[ref].ctx EXCEPT !.user_id = user_id], t)
           /\ cvref' = [cvref EXCEPT ![t] = Some(ref)]
    /\ UNCHANGED <<ret, pc, hdr, started>>
    /\ UNCHANGED mainvars

\* get_request_context() called by task t
GetRequestContext(t) ==
    /\ pc[t] = "handler"
    /\ cvref[t] = Nothing => CanAllocate
    /\ heap' = get_request_context_heap(heap, cvref, t)
    /\ cvref' = [cvref EXCEPT ![t] = Some(get_request_context_ref(heap, cvref, t))]
    /\ ret' = [ret EXCEPT ![t] =
                 Some([fn |-> "get_request_context",
                       ref |-> get_request_context_ref(heap, cvref, t),
                       user_id |-> heap'[get_request_context_ref(heap, cvref, t)].ctx.user_id])]
    /\ UNCHANGED <<pc, hdr, started>>
    /\ UNCHANGED mainvars

\* get_current_user_id() called by task t: get_request_context().user_id
GetCurrentUserId(t) ==
    /\ pc[t] = "handler"
    /\ cvref[t] = Nothing => CanAllocate
    /\ heap' = get_request_context_heap(heap, cvref, t)
    /\ cvref' = [cvref EXCEPT ![t] = Some(get_request_context_ref(heap, cvref, t))]
    /\ ret' = [ret EXCEPT ![t] =
                 Some([fn |-> "get_current_user_id",
                       ref |-> get_request_context_ref(heap, cvref, t),
                       user_id |-> heap'[get_request_context_ref(heap, cvref, t)].ctx.user_id])]
    /\ UNCHANGED <<pc, hdr, started>>
    /\ UNCHANGED mainvars

\* the request is over: the task and its context are gone
TaskEnd(t) ==
    /\ pc[t] = "handler"
    /\ pc' = [pc EXCEPT ![t] = "closed"]
    /\ cvref' = [cvref EXCEPT ![t] = Nothing]
    /\ ret' = [ret EXCEPT ![t] = Nothing]
    /\ UNCHANGED <<heap, hdr, started>>
    /\ UNCHANGED mainvars

ContextUserIds == {None_, UUIDv(2)}

InitContext ==
    /\ InitWith({})
    /\ users = EmptyDict

NextContext ==
    \/ \E t \in Reqs : TaskStart(t)
    \/ \E t \in Reqs, request \in HttpRequests : MiddlewareDispatch(t, request)
    \/ \E t \in Reqs, user_id \in ContextUserIds : SetRequestContext(t, user_id)
    \/ \E t \in Reqs, user_id \in ContextUserIds : SetCurrentUserId(t, user_id)
    \/ \E t \in Reqs : GetRequestContext(t)
    \/ \E t \in Reqs : GetCurrentUserId(t)
    \/ \E t \in Reqs : TaskEnd(t)

SpecContext == InitContext /\ [][NextContext]_vars

(***************************************************************************)
(* Properties.                                                             *)
(***************************************************************************)
IsPrefix(s, t) == Len(s) <= Len(t) /\ SubSeq(t, 1, Len(s)) = s
Elements(s) == {s[i] : i \in 1..Len(s)}
InFlight(r) == pc[r] \notin {"idle", "closed"}

\* the audit record carries the context the middleware built for the
\* request whose flush created it
C1_OwnContext(a) ==
    /\ a.changed_by = DispatchContext(a.request).user_id
    /\ a.ip_address = DispatchContext(a.request).ip_address
    /\ a.user_agent = DispatchContext(a.request).user_agent

\* C1: under every interleaving of the in-flight requests, every audit record
\* created during a flush of request R (pending in R's session, or committed)
\* has changed_by, ip_address and user_agent equal to those of the
\* RequestContext the middleware set for R, never those of another request.
C1_AuditContext ==
    /\ \A r \in Reqs : \A a \in Elements(pending[r]) :
          /\ hdr[r] # Nothing
          /\ a.request = hdr[r][1]
          /\ C1_OwnContext(a)
    /\ \A a \in Elements(audit_log) : C1_OwnContext(a)

\* an authenticated request holds an audit record while another request with
\* other headers is in flight
C1_Witness ==
    \E r \in Reqs, q \in Reqs :
        /\ r # q
        /\ InFlight(r) /\ InFlight(q)
        /\ hdr[r] # hdr[q]
        /\ pending[r] # <<>>
        /\ pending[r][1].changed_by # None_
        /\ DispatchContext(hdr[q][1]).user_id = None_

\* C2: in the record create_audit_log builds, each key of old_values and of
\* new_values that is in SENSITIVE_FIELDS maps to "***REDACTED***" (so the
\* value given for it is not stored), every other key keeps its value, and a
\* missing dict stays missing.
C2_Redacted ==
    (probe # Nothing /\ probe[1].fn = "create_audit_log") =>
        \A side \in {"old_values", "new_values"} :
            LET given == probe[1].arg[side]
                stored == probe[1].out[side]
            IN  IF given = Nothing THEN stored = Nothing
                ELSE /\ stored # Nothing
                     /\ DOMAIN stored[1] = DOMAIN given[1]
                     /\ \A key \in DOMAIN given[1] :
                           stored[1][key] = IF key \in SENSITIVE_FIELDS
                                            THEN Str("***REDACTED***")
                                            ELSE given[1][key]

\* a record made from dicts holding a sensitive and a non-sensitive key
C2_Witness ==
    /\ probe # Nothing
    /\ probe[1].fn = "create_audit_log"
    /\ probe[1].arg.new_values # Nothing
    /\ {"password", "username"} \subseteq DOMAIN probe[1].arg.new_values[1]
    /\ probe[1].arg.new_values[1]["password"] = Str("s3cret")
    /\ probe[1].arg.old_values # Nothing
    /\ "api_key" \in DOMAIN probe[1].arg.old_values[1]

\* C3: audit records are immutable.  No step changes or removes a committed
\* audit record (the committed audit_log only grows at its end), and a
\* record added to a session stays as it is until the session ends.
C3_AuditAppendOnly ==
    [][/\ IsPrefix(audit_log, audit_log')
       /\ \A r \in Reqs : pending'[r] = <<>> \/ IsPrefix(pending[r], pending'[r])]_vars

\* records were committed on top of the ones the database started with
C3_Witness ==
    /\ Len(audit_log) >= 3
    /\ \E r \in Reqs : pending[r] # <<>>

\* C4: no audit record of a User, whatever its action, has a field of
\* User.__audit_exclude__ (hashed_password) as a key of old_values or
\* new_values or as an element of changed_fields.
C4_ExcludedAbsent ==
    \A a \in Elements(audit_log) \cup UNION {Elements(pending[r]) : r \in Reqs} :
        \A f \in User__audit_exclude__ :
            /\ a.old_values # Nothing => f \notin DOMAIN a.old_values[1]
            /\ a.new_values # Nothing => f \notin DOMAIN a.new_values[1]
            /\ a.changed_fields # Nothing => f \notin Elements(a.changed_fields[1])

\* an update that changed hashed_password (and is_active) was flushed and
\* audited
C4_Witness ==
    \E r \in Reqs :
        /\ pc[r] = "refresh"
        /\ ent[r][1].cur["hashed_password"] = Str(hash_password("pw2"))
        /\ pending[r] # <<>>
        /\ pending[r][Len(pending[r])].action = "UPDATE"
        /\ "is_active" \in Elements(pending[r][Len(pending[r])].changed_fields[1])

\* a flush of the dirty User of request r that went through
C5_Flushed(r) ==
    /\ pc[r] \in {"soft_delete", "restore", "update"}
    /\ pc'[r] \in {"returned", "refresh"}
    /\ _is_audited("User", AUDITED_TABLES)

\* the UPDATE record of the step is made of `changed`, with `old` as the
\* value before the change
C5_Record(r, changed, old) ==
    IF changed = {} THEN pending'[r] = pending[r]
    ELSE /\ Len(pending'[r]) = Len(pending[r]) + 1
         /\ LET a == pending'[r][Len(pending'[r])]
            IN  /\ a.action = "UPDATE"
                /\ Elements(a.changed_fields[1]) = changed
                /\ DOMAIN a.old_values[1] = changed
                /\ DOMAIN a.new_values[1] = changed
                /\ \A c \in changed :
                      /\ a.old_values[1][c] =
                            IF c \in SENSITIVE_FIELDS THEN Str("***REDACTED***")
                            ELSE serialize_value(old[c])
                      /\ a.new_values[1][c] =
                            IF c \in SENSITIVE_FIELDS THEN Str("***REDACTED***")
                            ELSE serialize_value(ent'[r][1].cur[c])

\* C5 (as amended): for an audited User that is dirty at flush, changed_fields
\* is exactly the set of attributes whose value after the flush differs from
\* the value the session had loaded, except updated_at (its onupdate value is
\* written outside the attribute history) and the excluded fields; old_values
\* maps each of them to the serialized loaded value, new_values to the
\* serialized new value; the three have the same key set, and no record is
\* written when that set is empty.
C5_UpdateRecord ==
    [][\A r \in Reqs : C5_Flushed(r) =>
          C5_Record(r,
              {c \in ColumnSet \ (User__audit_exclude__ \cup {"updated_at"}) :
                  ent'[r][1].cur[c] # ent[r][1].cur[c]},
              ent[r][1].cur)]_vars

\* C5 as stated: changed_fields is the set of attributes whose in-memory value
\* differs from the persisted value (minus the excluded fields), and
\* old_values maps each to the persisted value before the change.
C5_AsStated ==
    [][\A r \in Reqs :
          (C5_Flushed(r) /\ ent[r][1].cur["id"].v \in DOMAIN users) =>
              C5_Record(r,
                  {c \in ColumnSet \ User__audit_exclude__ :
                      ent'[r][1].cur[c] # users[ent[r][1].cur["id"].v][c]},
                  users[ent[r][1].cur["id"].v])]_vars

\* an UPDATE record with two changed fields sits in a session
C5_Witness ==
    \E r \in Reqs :
        /\ pending[r] # <<>>
        /\ pending[r][Len(pending[r])].action = "UPDATE"
        /\ Len(pending[r][Len(pending[r])].changed_fields[1]) >= 2
        /\ ent[r] # Nothing
        /\ ent[r][1].cur["updated_at"] = DT(now)

\* C6 as stated: serialize_value maps None to None, a datetime to its ISO
\* string, a UUID to its string, an Enum to its value, leaves a JSON-encodable
\* value unchanged and turns any other value into str(value); its result is
\* JSON-compatible, and serializing the result again returns it unchanged.
C6_JsonCompatible ==
    (probe # Nothing /\ probe[1].fn = "serialize_value") =>
        LET value == probe[1].arg
            out == probe[1].out
        IN  /\ value.k = "none" => out = None_
            /\ value.k = "datetime" => out = Str(isoformat(value.v))
            /\ value.k = "uuid" => out = Str(str_uuid(value.v))
            /\ value.k = "enum" => out = value.v
            /\ (value.k \notin {"none", "datetime", "uuid", "enum"}
                    /\ JsonEncodable(value)) => out = value
            /\ (value.k \notin {"none", "datetime", "uuid", "enum"}
                    /\ ~JsonEncodable(value)) => out = Str(py_str(value))
            /\ JsonEncodable(out)
            /\ serialize_value(out) = out

\* C7 (as amended): when get_db is done with a session, the session is closed
\* and: if neither the handler nor the commit raised, commit was called once
\* and rollback never; if the handler raised, commit was not called; if an
\* Exception was raised (by the handler or by the commit), rollback was called
\* once and that exception propagates; if a BaseException that is not an
\* Exception was raised (asyncio.CancelledError), it propagates and rollback
\* was not called.
C7_GetDbOutcome ==
    /\ \A r \in Reqs : InFlight(r) => ~calls[r].closed
    /\ \A r \in Reqs : pc[r] = "closed" =>
          /\ calls[r].closed
          /\ calls[r].raised = Nothing =>
                /\ calls[r].commit = 1
                /\ calls[r].rollback = 0
                /\ calls[r].propagated = Nothing
          /\ calls[r].raised # Nothing =>
                /\ calls[r].propagated = calls[r].raised
                /\ calls[r].commit = 1 => calls[r].raised = Some("OperationalError")
                /\ calls[r].commit <= 1
                /\ IF calls[r].raised[1] = "CancelledError"
                   THEN calls[r].rollback = 0
                   ELSE calls[r].rollback = 1

\* C7 as stated: if the handler or the commit raises, rollback is called and
\* the same exception propagates.
C7_AsStated ==
    \A r \in Reqs : pc[r] = "closed" =>
        /\ calls[r].raised = Nothing =>
              /\ calls[r].commit = 1
              /\ calls[r].rollback = 0
        /\ calls[r].raised # Nothing =>
              /\ calls[r].rollback = 1
              /\ calls[r].propagated = calls[r].raised

\* one session ended by a cancelled handler, another by a failed commit
C7_Witness ==
    \E r \in Reqs, q \in Reqs :
        /\ pc[r] = "closed" /\ calls[r].raised = Some("CancelledError")
        /\ pc[q] = "closed" /\ calls[q].raised = Some("OperationalError")
        /\ calls[q].commit = 1

\* C8: the committed tables change only in the one successful commit of
\* get_db, which makes all writes of the request (its row and its audit
\* records) durable together; flushes change nothing committed, and a request
\* that ends with an exception, also after a flush, leaves the committed
\* tables as they are.
C8_DurableAtCommit ==
    [][/\ (users' # users \/ audit_log' # audit_log) =>
             \E r \in Reqs :
                /\ pc[r] = "returned" /\ pc'[r] = "closed"
                /\ calls'[r].commit = 1 /\ calls'[r].raised = Nothing
                /\ users' = Overlay(users, txw[r])
                /\ audit_log' = audit_log \o pending[r]
       /\ \A r \in Reqs :
             (pc[r] = "raised" /\ pc'[r] = "closed") =>
                 /\ users' = users
                 /\ audit_log' = audit_log
                 /\ txw'[r] = Nothing /\ pending'[r] = <<>>]_vars

\* a request raised after it had flushed a write and its audit record
C8_Witness ==
    \E r \in Reqs :
        /\ pc[r] = "raised"
        /\ txw[r] # Nothing
        /\ pending[r] # <<>>
        /\ Overlay(users, txw[r]) # users

\* what a session can see: the committed table, or a request's view of it
C9_Views == {users} \cup {View(r) : r \in Reqs}
C9_InSomePage(row, view, query(_, _, _)) ==
    \A res \in query(view, 0, Cardinality(DOMAIN view)) : row \in Elements(res.items)
C9_InNoPage(row, view, query(_, _, _)) ==
    \A page \in 0..MaxUsers, page_size \in 1..MaxUsers :
        \A res \in query(view, page, page_size) : row \notin Elements(res.items)
\* C9, the queries: a row with deleted_at set (is_deleted) is still in the
\* table and is returned by get_by_id_including_deleted and list_deleted, but
\* not by get_by_id, get_by_username (default arguments) or list, whose total
\* does not count it; a row with deleted_at None is returned by them.
C9_Queries ==
    \A view \in C9_Views : \A id \in DOMAIN view :
        LET row == view[id]
        IN  /\ is_deleted(row) <=> row["deleted_at"] # None_
            /\ get_by_id_including_deleted(view, id) = Some(row)
            /\ \A live \in list(view, 0, 1), dead \in list_deleted(view, 0, 1) :
                  live.total + dead.total = Cardinality(DOMAIN view)
            /\ IF row["deleted_at"] # None_
               THEN /\ get_by_id(view, id) = Nothing
                    /\ get_by_username(view, row["username"].v, FALSE) = Nothing
                    /\ C9_InNoPage(row, view, list)
                    /\ \A res \in list(view, 0, 1) : res.total < Cardinality(DOMAIN view)
                    /\ C9_InSomePage(row, view, list_deleted)
               ELSE /\ get_by_id(view, id) = Some(row)
                    /\ get_by_username(view, row["username"].v, FALSE) = Some(row)
                    /\ C9_InSomePage(row, view, list)
                    /\ C9_InNoPage(row, view, list_deleted)

\* C9, the writes: after delete(user) the row is still there with deleted_at
\* set; after restore(user) of a soft-deleted user deleted_at is None and
\* get_by_id returns the user again.
C9_Writes ==
    \A r \in Reqs :
        LET id == ent[r][1].cur["id"].v
            after == Overlay(users', txw'[r])
        IN  /\ (pc[r] = "soft_delete" /\ pc'[r] = "returned") =>
                  /\ id \in DOMAIN after
                  /\ after[id]["deleted_at"] # None_
                  /\ is_deleted(ent'[r][1].cur)
                  /\ get_by_id(after, id) = Nothing
            /\ (pc[r] = "restore" /\ pc'[r] = "returned"
                    /\ is_deleted(ent[r][1].cur)) =>
                  /\ id \in DOMAIN after
                  /\ after[id]["deleted_at"] = None_
                  /\ ~is_deleted(ent'[r][1].cur)
                  /\ get_by_id(after, id) = Some(after[id])

C10_Unique(view) ==
    \A i \in DOMAIN view, j \in DOMAIN view :
        view[i]["username"] = view[j]["username"] => i = j

\* create: past the lookup only if no visible row, soft-deleted or not, holds
\* the username; otherwise UsernameAlreadyExistsError, and no row is added
C10_Create ==
    \A r \in Reqs :
        /\ (pc[r] = "handler" /\ pc'[r] = "create") =>
              \A id \in DOMAIN View(r) :
                  View(r)[id]["username"] # ent'[r][1].cur["username"]
        /\ (pc[r] = "handler"
                /\ calls'[r].raised = Some("UsernameAlreadyExistsError")) =>
              /\ users' = users /\ txw' = txw /\ nextId' = nextId

\* C10: usernames are unique over all rows, soft-deleted ones included, in the
\* committed table and in every transaction's view of it (so of two
\* concurrent creates of one username at most one commits its row); create
\* with a username a visible row holds raises UsernameAlreadyExistsError and
\* adds no row.
C10_UsernameUnique ==
    /\ [](C10_Unique(users) /\ \A r \in Reqs : C10_Unique(View(r)))
    /\ [][C10_Create]_vars

\* two creates of one username ran together on an empty table: one committed
\* its row, the other failed on the unique index
C10_Witness ==
    /\ now = 2 /\ started = 2
    /\ Cardinality(DOMAIN users) = 1
    /\ \E r \in Reqs, q \in Reqs :
          /\ calls[r].raised = Some("IntegrityError")
          /\ pc[q] = "closed" /\ calls[q].commit = 1 /\ calls[q].raised = Nothing

\* C11: the request context is isolated per request.  No RequestContext
\* object is referenced by the contexts of two requests, the server's context
\* holds none, an object a request's context refers to was written by that
\* request only, and what get_request_context / get_current_user_id return to
\* a request is an object (a user id) only that request has written.
C11_ContextIsolated ==
    /\ cvref[ServerContext] = Nothing
    /\ \A t \in Reqs, u \in Reqs :
          (t # u /\ cvref[t] # Nothing) => cvref[t] # cvref[u]
    /\ \A t \in Reqs : cvref[t] # Nothing => heap[cvref[t][1]].by \subseteq {t}
    /\ \A t \in Reqs : ret[t] # Nothing =>
          /\ heap[ret[t][1].ref].by \subseteq {t}
          /\ \A u \in Reqs \ {t} : cvref[u] # Some(ret[t][1].ref)

\* two requests in flight: one wrote user 2 with set_current_user_id into the
\* context its middleware had set, the other reads its own user id after it
C11_Witness ==
    /\ pc[1] = "handler" /\ pc[2] = "handler"
    /\ hdr[1] # Nothing
    /\ cvref[1] # Nothing
    /\ heap[cvref[1][1]].ctx.user_id = UUIDv(2)
    /\ heap[cvref[1][1]].ctx.ip_address # None_
    /\ ret[2] # Nothing
    /\ ret[2][1].fn = "get_current_user_id"
    /\ ret[2][1].user_id = None_
    /\ ret[2][1].ref > cvref[1][1]


\* C12: decode_access_token returns the UUID carried in "sub" for every token
\* that create_access_token({"sub": str(id)}) produced and that has not yet
\* expired; it returns None, and raises nothing, for a token that is expired,
\* malformed, signed with another key or algorithm, without "sub", or whose
\* "sub" is not a UUID.
C12_Decode ==
    probe # Nothing =>
        LET p == probe[1]
        IN  /\ p.fn = "create_access_token" =>
                LET delta == IF p.arg.expires_delta \in {Nothing, Some(0)}
                             THEN access_token_expire_minutes
                             ELSE p.arg.expires_delta[1]
                IN  IF p.arg.time < p.arg.issued + delta
                    THEN p.out = UUIDv(p.arg.id)
                    ELSE p.out = None_
            /\ p.fn = "decode_access_token" =>
                LET jwt == p.arg.jwt
                    sub == jwt.payload.sub
                    rejected ==
                        \/ ~jwt.wellformed
                        \/ jwt.alg # "HS256"
                        \/ jwt.key # secret_key
                        \/ jwt.payload.exp[1] <= p.arg.time
                        \/ sub = Nothing
                        \/ \A n \in 1..9 : sub # Some(Str(str_uuid(n)))
                IN  /\ p.out.k # "raise"
                    /\ rejected => p.out = None_
                    /\ ~rejected => p.out = UUIDv(1)
C12_Witness ==
    /\ probe # Nothing
    /\ probe[1].fn = "decode_access_token"
    /\ probe[1].arg.jwt.wellformed
    /\ probe[1].arg.jwt.key = secret_key
    /\ probe[1].arg.jwt.alg = "HS256"
    /\ probe[1].arg.time < probe[1].arg.jwt.payload.exp[1]
    /\ probe[1].arg.jwt.payload.sub = Some(Str("not-a-uuid"))
    /\ probe[1].out = None_

\* C13: authenticate(username, password) issues a token, whose "sub" is the
\* user's id, exactly when the username names a user that is not soft-deleted,
\* the password verifies and the user is active. An unknown or soft-deleted
\* username or a wrong password raises InvalidCredentialsError (also for an
\* inactive user); a correct password for an inactive user raises
\* UserDisabledError.
C13_Authenticate ==
    (probe # Nothing /\ probe[1].fn = "authenticate") =>
        LET a == probe[1].arg
            out == probe[1].out
            named == {i \in DOMAIN a.view :
                         /\ a.view[i]["username"] = Str(a.username)
                         /\ a.view[i]["deleted_at"] = None_}
            right == {i \in named :
                         a.view[i]["hashed_password"] = Str("$argon2id$" \o a.password)}
            active == {i \in right : a.view[i]["is_active"] = Bool(TRUE)}
        IN  /\ ("access_token" \in DOMAIN out) <=> (active # {})
            /\ active # {} =>
                 \E i \in active :
                    /\ a.view[i]["id"] = UUIDv(i)
                    /\ "access_token" \in DOMAIN out
                    /\ out.access_token.payload.sub = Some(Str(str_uuid(i)))
                    /\ decode_access_token(jwt_decode(out.access_token, secret_key, now))
                          = UUIDv(i)
            /\ right = {} => out = Raised("InvalidCredentialsError")
            /\ (right # {} /\ active = {}) => out = Raised("UserDisabledError")
C13_Witness ==
    /\ probe # Nothing
    /\ probe[1].fn = "authenticate"
    /\ probe[1].arg.username = "bob"
    /\ probe[1].arg.password = "wrong"
    /\ 2 \in DOMAIN probe[1].arg.view
    /\ probe[1].arg.view[2]["is_active"] = Bool(FALSE)
    /\ probe[1].arg.view[2]["deleted_at"] = None_
    /\ probe[1].out = Raised("InvalidCredentialsError")

C15_ContextFirst ==
    (probe # Nothing /\ probe[1].fn = "setup_middlewares") =>
        /\ probe[1].out[1].middleware = "RequestContextMiddleware"
        /\ \A i \in 2..Len(probe[1].out) : probe[1].out[i].context_set

C17_Produced(r, n) ==
    /\ Len(pending'[r]) = Len(pending[r]) + n
    /\ SubSeq(pending'[r], 1, Len(pending[r])) = pending[r]
C17_About(a, action, target) ==
    /\ a.action = action
    /\ a.table_name = Str("app_user")
    /\ a.record_id = Str(str_uuid(target.cur["id"].v))
C17_OnePerChange ==
    [][\A r \in Reqs :
          LET last == pending'[r][Len(pending'[r])]
              kept == ColumnSet \ User__audit_exclude__
              audited == "app_user" \in AUDITED_TABLES
          IN  IF pc[r] = "create" /\ pc'[r] = "refresh" /\ audited
              THEN /\ C17_Produced(r, 1)
                   /\ C17_About(last, "INSERT", ent'[r][1])
                   /\ last.old_values = Nothing
                   /\ last.changed_fields = Nothing
                   /\ DOMAIN last.new_values[1] = kept
              ELSE IF /\ pc[r] \in {"soft_delete", "restore", "update"}
                      /\ pc'[r] \in {"returned", "refresh"}
                      /\ audited
              THEN IF \E c \in kept \ {"updated_at"} :
                          ent'[r][1].cur[c] # ent[r][1].cur[c]
                   THEN /\ C17_Produced(r, 1)
                        /\ C17_About(last, "UPDATE", ent'[r][1])
                        /\ last.changed_fields # Nothing
                        /\ last.changed_fields[1] # <<>>
                   ELSE C17_Produced(r, 0)
              ELSE IF pc[r] = "hard_delete" /\ pc'[r] = "returned" /\ audited
              THEN /\ C17_Produced(r, 1)
                   /\ C17_About(last, "DELETE", ent[r][1])
                   /\ last.new_values = Nothing
                   /\ last.changed_fields = Nothing
                   /\ DOMAIN last.old_values[1] = kept
              ELSE pending'[r] = pending[r] \/ pending'[r] = <<>>]_vars

\* a flush of a dirty User whose only changed field is the updated_by that
\* the update hook assigned: one UPDATE record
C17_Witness ==
    \E r \in Reqs :
        /\ pc[r] \in {"returned", "refresh"}
        /\ Len(pending[r]) = 1
        /\ pending[r][1].action = "UPDATE"
        /\ pending[r][1].changed_fields = Some(<<"updated_by">>)
        /\ pending[r][1].record_id = Str(str_uuid(ent[r][1].cur["id"].v))


\* C18: an entity is audited exactly when it is not an AuditLog and its class
\* sets __auditable__ to a true value or its __tablename__ is in
\* AUDITED_TABLES; an entity that is not audited produces no audit record.
\* With the shipped defaults (AUDITED_TABLES empty, User without
\* __auditable__) no sequence of user operations produces an audit record.
C18_AuditedIff ==
    /\ \A cls \in {"User", "AuditLog"}, tables \in SUBSET {"app_user", "audit_log"} :
          _is_audited(cls, tables) <=>
              /\ cls # "AuditLog"
              /\ \/ (cls = "User" /\ User__auditable__)
                 \/ (IF cls = "User" THEN "app_user" ELSE "audit_log") \in tables
    /\ (~User__auditable__ /\ "app_user" \notin AUDITED_TABLES) =>
          /\ audit_log = <<>>
          /\ \A r \in Reqs : pending[r] = <<>>

\* with the shipped defaults, an insert and an update are committed and a
\* hard delete is flushed, with no audit record anywhere
C18_Witness ==
    /\ AUDITED_TABLES = {}
    /\ \E id \in DOMAIN users : users[id]["updated_at"] # users[id]["created_at"]
    /\ \E r \in Reqs : pc[r] = "returned" /\ txw[r] # Nothing /\ txw[r][1].row = Nothing
    /\ audit_log = <<>>

\* C19: audit records added to the session inside after_flush are never
\* audited themselves: the commit of a request flushes once for its audit
\* rows (not at all when there are none), leaves nothing to flush, and
\* persists exactly as many audit records as the request's flushes had made.
C19_NoCascade ==
    [][\A r \in Reqs :
          /\ calls'[r].raised # Some("FlushError")
          /\ (pc[r] = "returned" /\ pc'[r] = "returned") => pending'[r] = pending[r]
          /\ (pc[r] = "returned" /\ pc'[r] = "closed") =>
                /\ calls'[r].flushes = IF pending[r] = <<>> THEN 0 ELSE 1
                /\ calls'[r].flushed = Len(pending[r])
                /\ audit_log' = audit_log \o pending[r]
                /\ pending'[r] = <<>>
                /\ \A a \in Elements(audit_log') : a.table_name # Str("audit_log")]_vars

\* a commit that took the extra flush for one audit row
C19_Witness ==
    \E r \in Reqs :
        /\ pc[r] = "closed"
        /\ calls[r].commit = 1
        /\ calls[r].raised = Nothing
        /\ calls[r].flushes = 1
        /\ audit_log # <<>>
        /\ audit_log[Len(audit_log)].action = "DELETE"


\* C20: an audit record is committed exactly when the change it describes is
\* committed.  A commit persists the transaction's row change together with
\* the audit records its flushes made; a request that ends without commit
\* leaves neither; each record persisted describes the row change persisted
\* with it, and a persisted insert, delete or change of a recorded column
\* comes with its record.
C20_Described(a, w) ==
    /\ a.record_id = Str(str_uuid(w.id))
    /\ a.action = "INSERT" => (w.id \notin DOMAIN users /\ w.id \in DOMAIN users')
    /\ a.action = "DELETE" => w.id \notin DOMAIN users'
    /\ a.action \in {"INSERT", "UPDATE"} =>
          \A c \in DOMAIN a.new_values[1] \ SENSITIVE_FIELDS :
              a.new_values[1][c] = serialize_value(users'[w.id][c])
C20_Recorded(records, w) ==
    LET recorded == ColumnSet \ (User__audit_exclude__ \cup {"updated_at"})
    IN  IF w.id \notin DOMAIN users \/ w.row = Nothing
        THEN Len(records) = 1
        ELSE (\E c \in recorded : w.row[1][c] # users[w.id][c]) => Len(records) = 1
C20_CommittedTogether ==
    [][IF \E r \in Reqs : pc[r] = "returned" /\ pc'[r] = "closed"
       THEN \E r \in Reqs :
               /\ pc[r] = "returned" /\ pc'[r] = "closed"
               /\ users' = Overlay(users, txw[r])
               /\ audit_log' = audit_log \o pending[r]
               /\ txw[r] = Nothing => pending[r] = <<>>
               /\ txw[r] # Nothing =>
                     /\ \A i \in 1..Len(pending[r]) : C20_Described(pending[r][i], txw[r][1])
                     /\ C20_Recorded(pending[r], txw[r][1])
       ELSE users' = users /\ audit_log' = audit_log]_vars

\* a flushed change and its audit record in a transaction that has failed:
\* neither will be persisted
C20_Witness ==
    \E r \in Reqs :
        /\ pc[r] = "raised"
        /\ txw[r] # Nothing
        /\ pending[r] # <<>>
        /\ calls[r].raised = Some("OperationalError")
        /\ audit_log # <<>>
(***************************************************************************)
(* C21: soft_delete and restore are audited as an UPDATE of deleted_at,    *)
(* and only hard_delete is audited as a DELETE.                            *)
(***************************************************************************)
\* the records the step of request r added to its session
C21_Added(r) ==
    IF Len(pending'[r]) > Len(pending[r])
    THEN SubSeq(pending'[r], Len(pending[r]) + 1, Len(pending'[r]))
    ELSE <<>>

\* one UPDATE record about the loaded entity, with deleted_at a changed field
C21_UpdateOfDeletedAt(r) ==
    /\ Len(C21_Added(r)) = 1
    /\ C21_Added(r)[1].action = "UPDATE"
    /\ C21_Added(r)[1].table_name = Str("app_user")
    /\ C21_Added(r)[1].record_id = Str(py_str(ent[r][1].cur["id"]))
    /\ "deleted_at" \in Elements(C21_Added(r)[1].changed_fields[1])

\* C21: a flushed soft_delete, and a flushed restore of a soft-deleted
\* entity, add exactly one UPDATE record whose changed_fields holds
\* deleted_at; a restore of an entity that is not soft-deleted adds no record
\* naming deleted_at; a DELETE record is added by hard_delete alone.
C21_SoftDeleteAudit ==
    [][\A r \in Reqs :
          /\ (pc[r] = "soft_delete" /\ pc'[r] = "returned") => C21_UpdateOfDeletedAt(r)
          /\ (pc[r] = "restore" /\ pc'[r] = "returned") =>
                IF ent[r][1].cur["deleted_at"] # None_
                THEN C21_UpdateOfDeletedAt(r)
                ELSE \A i \in DOMAIN C21_Added(r) :
                        /\ C21_Added(r)[i].action = "UPDATE"
                        /\ "deleted_at" \notin Elements(C21_Added(r)[i].changed_fields[1])
          /\ \A i \in DOMAIN C21_Added(r) :
                C21_Added(r)[i].action = "DELETE" =>
                    /\ pc[r] = "hard_delete"
                    /\ pc'[r] = "returned"]_vars

\* C21 as stated: every flushed restore adds the UPDATE record of deleted_at
C21_AsStated ==
    [][\A r \in Reqs :
          (pc[r] \in {"soft_delete", "restore"} /\ pc'[r] = "returned")
              => C21_UpdateOfDeletedAt(r)]_vars

\* a committed soft delete, restore and hard delete of audited users, each
\* with its record in the audit log
C21_Witness ==
    \E i, j, k \in DOMAIN audit_log :
        /\ audit_log[i].action = "UPDATE"
        /\ "deleted_at" \in Elements(audit_log[i].changed_fields[1])
        /\ audit_log[i].new_values[1]["deleted_at"] # None_
        /\ audit_log[j].action = "UPDATE"
        /\ "deleted_at" \in Elements(audit_log[j].changed_fields[1])
        /\ audit_log[j].new_values[1]["deleted_at"] = None_
        /\ audit_log[k].action = "DELETE"

(***************************************************************************)
(* C22: get and delete of a user that the lookup does not see, because no  *)
(* row has the id or because the row is soft-deleted, raise                *)
(* UserNotFoundError and change nothing.                                   *)
(***************************************************************************)
\* id names no user, or a soft-deleted user, in the rows the request sees
C22_Absent(view, id) ==
    \/ id \notin DOMAIN view
    \/ view[id]["deleted_at"] # None_

\* C22: UserService.get and UserService.delete on an id that names no user
\* or a soft-deleted user raise UserNotFoundError, whose response has status
\* 404, and write nothing: no row, no deleted_at, no audit record; the
\* request then ends in a rollback that leaves the committed tables as they
\* are, so the deleted_at of an earlier delete stays.
C22_NotFound ==
    [][\A r \in Reqs :
          /\ \A id \in UserIds :
                (C22_Absent(View(r), id) /\ (Get(r, id) \/ DeleteLoad(r, id))) =>
                    /\ pc'[r] = "raised"
                    /\ calls'[r].raised = Some("UserNotFoundError")
                    /\ api_error_handler(UserNotFoundError(id)).status_code = 404
                    /\ UNCHANGED <<users, audit_log, txw, pending>>
          /\ (/\ pc[r] = "raised"
              /\ calls[r].raised = Some("UserNotFoundError")
              /\ pc'[r] # "raised") =>
                    /\ pc'[r] = "closed"
                    /\ calls'[r].rollback = 1
                    /\ calls'[r].commit = 0
                    /\ calls'[r].propagated = Some("UserNotFoundError")
                    /\ UNCHANGED <<users, audit_log>>]_vars

\* a request failed with UserNotFoundError and rolled back when every id
\* named no user or a soft-deleted one, the deleted_at of the earlier delete
\* still in place
C22_Witness ==
    \E r \in Reqs :
        /\ pc[r] = "closed"
        /\ calls[r].propagated = Some("UserNotFoundError")
        /\ calls[r].rollback = 1
        /\ \A id \in UserIds : C22_Absent(users, id)
        /\ \E id \in DOMAIN users : users[id]["deleted_at"] = DT(2)
        /\ \E id \in UserIds : id \notin DOMAIN users
        /\ started = MaxRequests

\* C22 as stated: a deleted_at that a delete has committed is never replaced
\* by the time of another delete
C22_AsStated ==
    [][\A id \in DOMAIN users :
          (/\ users[id]["deleted_at"] # None_
           /\ id \in DOMAIN users'
           /\ users'[id]["deleted_at"] # None_)
              => users'[id]["deleted_at"] = users[id]["deleted_at"]]_vars

(***************************************************************************)
(* C23: what list(page, page_size) returns, page by page.                  *)
(***************************************************************************)
\* the users of a table that are not soft-deleted
C23_Active(view) == {row \in Rows(view) : row["deleted_at"] = None_}

\* how often a row is returned on the pages read
C23_Count(pages, row) ==
    Cardinality({<<n, i>> \in (DOMAIN pages) \X (1..MaxUsers) :
                    i <= Len(pages[n].items) /\ pages[n].items[i] = row})

\* the part of C23 about one page: page n - 1 holds at most page_size users,
\* none of them soft-deleted, as many as the table has from offset
\* (n - 1) * page_size on, in descending created_at order, each of them not
\* older than the users of later pages' offsets allow; total counts the
\* users that are not soft-deleted, whatever the page
C23_PageContents ==
    (probe # Nothing /\ probe[1].fn = "list") =>
        LET view == probe[1].arg.view
            page_size == probe[1].arg.page_size
            pages == probe[1].out
            total == Cardinality(C23_Active(view))
        IN  \A n \in DOMAIN pages :
                LET items == pages[n].items
                    offset == (n - 1) * page_size
                    left == IF total > offset THEN total - offset ELSE 0
                IN  /\ pages[n].total = total
                    /\ Len(items) = IF left < page_size THEN left ELSE page_size
                    /\ \A i \in DOMAIN items : items[i] \in C23_Active(view)
                    /\ \A i, j \in DOMAIN items : i # j => items[i] # items[j]
                    /\ \A i, j \in DOMAIN items :
                          i < j => items[i]["created_at"].v >= items[j]["created_at"].v
                    /\ \A i \in DOMAIN items :
                          /\ Cardinality({row \in C23_Active(view) :
                                row["created_at"].v > items[i]["created_at"].v})
                                <= offset + i - 1
                          /\ Cardinality({row \in C23_Active(view) :
                                row["created_at"].v >= items[i]["created_at"].v})
                                >= offset + i

\* the part of C23 about a whole reading, for tables whose users that are
\* not soft-deleted have pairwise different created_at
C23_OncePerUser ==
    (probe # Nothing /\ probe[1].fn = "list") =>
        LET view == probe[1].arg.view
            pages == probe[1].out
        IN  (/\ Len(pages) * probe[1].arg.page_size >= Cardinality(C23_Active(view))
             /\ \A x, y \in C23_Active(view) :
                   x # y => x["created_at"] # y["created_at"])
                => \A row \in C23_Active(view) : C23_Count(pages, row) = 1

\* C23: every page is as C23_PageContents says, and once the pages
\* 0, 1, 2, ... read from an unchanged table cover its total, every user
\* that is not soft-deleted is on exactly one of them, also when several
\* users have the same created_at.
C23_ListPages ==
    /\ C23_PageContents
    /\ (probe # Nothing /\ probe[1].fn = "list") =>
          (Len(probe[1].out) * probe[1].arg.page_size
                >= Cardinality(C23_Active(probe[1].arg.view))
             => \A row \in C23_Active(probe[1].arg.view) :
                    C23_Count(probe[1].out, row) = 1)

====
